---- MODULE Spec2Model ----
(***************************************************************************)
(* The packetd dispatch core: nfqueueCallback and callSubscribers of the   *)
(* dispatch package, run by several kernel worker threads at once over a   *)
(* shared session table, a shared subscription registry and the dict       *)
(* side channel.                                                           *)
(***************************************************************************)
EXTENDS Integers, Sequences, FiniteSets, TLC

\* ------------------------------------------------------------- bounds

\* packets handed up by the kernel shim in one run
MaxPackets == 2

\* calls of the Insert...Subscription functions in one run
MaxInserts == 3

\* how many times the cleaner's timer fires in a run
MaxSweeps == 2

\* how many events the kernel raises in a run
MaxEvents == 2

\* the returns of nfct_catch in a run of the conntrack thread
MaxCatches == 2

\* how many times HandleWarehouseCleanup is called in a run
MaxCleanups == 2

\* how many changes an inspector makes to what GetConntrackTable returned
MaxInspections == 2

\* the epoch second at which Startup seeds the session index; the mask
\* 0xFFFFFFFF of the seed is the identity on it
EpochSeconds == 1

\* ---------------------------------------------------------- constants

NfDrop == 0

NfAccept == 1

\* bit 0x10000000 of the packet mark: first packet of a kernel flow
NewSessionBit == 268435456

\* the highest priority the layer loop accepts
MaxPriority == 100

\* the kernel worker threads that call nfqueueCallback concurrently
Workers == {1, 2}

\* the plugins that may subscribe
Owners == {"A", "B"}

CtIds == {100, 101}

\* the zero value of a *SessionEntry
Nil == 0

\* a TCP segment 10.0.0.1:50000 -> 93.184.216.34:443
ClientPacket ==
    [l3 |-> "IPv4", proto |-> 6, src |-> "10.0.0.1", dst |-> "93.184.216.34",
     l4 |-> "TCP", sport |-> 50000, dport |-> 443, id |-> 0, length |-> 60]

\* a TCP segment of the reply direction
ServerPacket ==
    [l3 |-> "IPv4", proto |-> 6, src |-> "93.184.216.34", dst |-> "10.0.0.1",
     l4 |-> "TCP", sport |-> 443, dport |-> 50000, id |-> 0, length |-> 52]

\* an ARP frame: neither an IPv4 nor an IPv6 layer
ArpPacket ==
    [l3 |-> "none", proto |-> 0, src |-> "", dst |-> "",
     l4 |-> "none", sport |-> 0, dport |-> 0, id |-> 0, length |-> 28]

\* a UDP datagram of an unrelated flow, 10.0.0.2:5353 -> 10.0.0.3:53
OtherPacket ==
    [l3 |-> "IPv4", proto |-> 17, src |-> "10.0.0.2", dst |-> "10.0.0.3",
     l4 |-> "UDP", sport |-> 5353, dport |-> 53, id |-> 0, length |-> 44]

Packets == {ClientPacket, ServerPacket, ArpPacket, OtherPacket}

\* What the shim hands to nfqueueCallback: the first packet of a flow, a
\* later packet of it in either direction, the first packet of a second flow
\* that reuses the tuple in either direction, and a frame without IP layer.
Deliveries ==
    { [ctid |-> 100, pkt |-> ClientPacket, pmark |-> NewSessionBit],
      [ctid |-> 100, pkt |-> ClientPacket, pmark |-> 1],
      [ctid |-> 100, pkt |-> ServerPacket, pmark |-> 1],
      [ctid |-> 101, pkt |-> ClientPacket, pmark |-> NewSessionBit],
      [ctid |-> 101, pkt |-> ServerPacket, pmark |-> NewSessionBit],
      [ctid |-> 101, pkt |-> ArpPacket, pmark |-> 1] }

\* What the shim hands to a single worker thread: the same, and the first
\* packet of an unrelated flow for which the kernel reuses conntrack id 100.
DeliveriesSeq ==
    Deliveries \cup {[ctid |-> 100, pkt |-> OtherPacket, pmark |-> NewSessionBit]}

\* ------------------------------------------------------- pure helpers

RECURSIVE BitOr(_, _)
\* a | b on unsigned integers
BitOr(a, b) ==
    IF a = 0 THEN b
    ELSE IF b = 0 THEN a
    ELSE (IF a % 2 = 1 \/ b % 2 = 1 THEN 1 ELSE 0) + 2 * BitOr(a \div 2, b \div 2)

RECURSIVE BitAnd(_, _)
\* a & b on unsigned integers
BitAnd(a, b) ==
    IF a = 0 \/ b = 0 THEN 0
    ELSE (IF a % 2 = 1 /\ b % 2 = 1 THEN 1 ELSE 0) + 2 * BitAnd(a \div 2, b \div 2)

\* whether the packet carries an IPv4 or an IPv6 layer
HasIPLayer(pkt) == pkt.l3 \in {"IPv4", "IPv6"}

\* mess.MsgTuple as nfqueueCallback fills it in from the packet's layers
MsgTuple(pkt) ==
    [ Protocol |-> pkt.proto,
      ClientAddress |-> pkt.src,
      ServerAddress |-> pkt.dst,
      ClientPort |-> IF pkt.l4 = "ICMPv4" THEN pkt.id
                     ELSE IF pkt.l4 \in {"TCP", "UDP"} THEN pkt.sport ELSE 0,
      ServerPort |-> IF pkt.l4 = "ICMPv4" THEN pkt.id
                     ELSE IF pkt.l4 \in {"TCP", "UDP"} THEN pkt.dport ELSE 0 ]

\* Tuple.String: "proto|client:cport-server:sport"
TupleString(t) ==
    <<t.Protocol, t.ClientAddress, t.ClientPort, t.ServerAddress, t.ServerPort>>

\* a reverse form that swaps nothing
TupleStringUnswapped(t) ==
    <<t.Protocol, t.ClientAddress, t.ClientPort, t.ServerAddress, t.ServerPort>>

\* Tuple.StringReverse: the same form with client and server swapped
TupleStringReverse(t) ==
    <<t.Protocol, t.ServerAddress, t.ServerPort, t.ClientAddress, t.ClientPort>>

\* every key the session table can be probed with
TableKeys ==
    UNION { {TupleString(MsgTuple(p)), TupleStringReverse(MsgTuple(p))} :
            p \in {q \in Packets : HasIPLayer(q)} }

\* newSession := ((pmark & 0x10000000) != 0)
IsNewSession(pmark) == BitAnd(pmark, NewSessionBit) # 0

\* holder.Owner = owner; holder.Priority = priority
Holder(owner, priority) == [Owner |-> owner, Priority |-> priority]

\* the registries InsertNfqueueSubscription has built at startup: no plugin,
\* one plugin at the lowest or at the highest priority, two plugins in one
\* layer, two plugins in two layers
Registries ==
    { [o \in {} |-> Holder(o, 0)],
      [o \in {"A"} |-> Holder(o, 0)],
      [o \in {"A"} |-> Holder(o, MaxPriority)],
      [o \in Owners |-> Holder(o, 0)],
      [o \in Owners |-> Holder(o, IF o = "A" THEN 0 ELSE 1)] }

\* the mark bits a plugin returns
HandlerMarks(o) == IF o = "A" THEN {1} ELSE {2}

\* what a plugin's handler may return; the handler contract has Owner equal
\* to the name the plugin subscribed under
HandlerResults(o) ==
    { [Owner |-> o, PacketMark |-> m, SessionRelease |-> r] :
      m \in HandlerMarks(o), r \in BOOLEAN }

\* the result the guard synthesizes when the timer fires first
TimeoutResult(key) == [Owner |-> key, PacketMark |-> 0, SessionRelease |-> TRUE]

\* a merge that keeps only the latest result's bits: pmark = result.PacketMark
MergeMarkOverwrite(pmark, result) == result.PacketMark

\* pmark |= result.PacketMark
MergeMark(pmark, result) == BitOr(pmark, result.PacketMark)

\* a layer filter that lets through every priority not yet passed
LayerOfAtLeast(sublist, priority) ==
    {k \in DOMAIN sublist : sublist[k].Priority >= priority}

\* the handlers the inner loop launches at one priority
LayerOf(sublist, priority) ==
    {k \in DOMAIN sublist : sublist[k].Priority = priority}

\* a delete that empties the map
MapDeleteAll(m, owner) == <<>>

\* delete(m, owner) on a Go map
MapDelete(m, owner) == [k \in DOMAIN m \ {owner} |-> m[k]]

\* ------------------------------------------------------------- state

VARIABLES
    nfqueueList,      \* the registry: owner -> SubscriptionHolder
    sessions,         \* the SessionEntry objects allocated so far, in order
    sessionTable,     \* tuple string -> index into sessions, or Nil
    conntrackIndex,   \* conntrack id -> index into sessions, or Nil
    sessionIndex,     \* the session id counter
    dict,             \* the dict side channel: <<ctid, key, value>> entries
    disp,             \* per worker: the locals of its nfqueueCallback call
    npackets,         \* packets received so far
    returned,         \* history: the latest call of nfqueueCallback that returned
    released,         \* history: <<session, owner>> for which ReleaseSession returned
    acctLog,          \* history: per session, packets and bytes dispatched on it
    nfqueueSubList,   \* dispatch.go's nfqueue registry: owner -> SubscriptionHolder
    conntrackSubList, \* the conntrack registry
    netloggerSubList, \* the netlogger registry
    fatal,            \* whether a registration has panicked
    ninserts,         \* registrations made so far
    subLocker,        \* per worker: the subLocker it holds, or Nil
    taking,           \* per worker: the owner it is in ReleaseSession for, or ""
    nfqueueListMutex, \* the owner whose registration holds nfqueueListMutex, or ""
    inserting,        \* the holder that registration is about to store
    attachView,       \* per worker: nfqueueList as its attach began to read it
    cleanerPc,        \* where cleanerTask is
    shutdownPc,       \* where the caller of Shutdown is
    counter,          \* cleanerTask's counter of sweeps
    attachments,      \* <<session, name>> for every attachment put on a session
    statsAsked,       \* history: sessions the stats handler asked to be released from
    g_shutdown,       \* the shim's shutdown flag
    shimPc,           \* where the conntrack thread is
    shimEvent,        \* the event conntrack_callback was entered with
    tracker_error,    \* conntrack_callback's count of ERROR events
    tracker_unknown,  \* conntrack_callback's count of events of unknown type
    nevents,          \* events the kernel has raised so far
    delivered,        \* history: the latest call of go_conntrack_callback
    conntrackTable,   \* conntrack id -> pointer to a Conntrack, or Nil
    conntrackRows,    \* the Conntrack objects by pointer
    inspected,        \* the map a caller of GetConntrackTable holds
    ninspect,         \* changes the caller has made through that map
    nfCleanupList,    \* the sessions a playback recorded: nil, or a set of ids
    ctCleanupList,    \* the conntrack entries a playback recorded
    cleanupMutex,     \* who holds cleanupMutex, or ""
    playbackPc,       \* where HandleWarehousePlayback and its goroutine are
    ncleanups,        \* calls of HandleWarehouseCleanup that have returned
    wrappers,         \* per worker and handler: the guarded task that waits
                      \* for the handler or the timer and forwards one result
    handlerTasks,     \* the tasks that run a handler and send on its channel c
    hopCall,          \* the last call of logHopCount: its arguments and hops
    nhops,            \* calls of logHopCount so far
    previous,         \* the interface counter calculateDifference keeps
    lastDiff,         \* the last call of calculateDifference and its result
    ncalc,            \* calls of calculateDifference so far
    shutdownCalls,    \* per caller of Shutdown: where its call is
    threadPc,         \* where conntrack_thread is
    nfcth,            \* the static handle pointer: "NULL" or the handle
    handleOpen,       \* whether a netlink handle is open
    startupRet,       \* what conntrack_startup returned
    threadRet,        \* what conntrack_thread returned, -1 before it has
    childCalls,       \* history: the calls of go_child_startup and _goodbye
    ncatch            \* returns of nfct_catch so far

\* the registries and the registration state
registration ==
    <<nfqueueSubList, conntrackSubList, netloggerSubList, fatal, ninserts>>

\* what a dispatch holds while it is inside ReleaseSession
locks == <<subLocker, taking, nfqueueListMutex, inserting, attachView>>

\* the cleaner task and the caller of Shutdown
cleaning == <<cleanerPc, shutdownPc, counter>>

\* the stats plugin's state on the sessions
stats == <<attachments, statsAsked>>

\* the conntrack thread of the C shim
shim == <<g_shutdown, shimPc, shimEvent, tracker_error, tracker_unknown,
          nevents, delivered>>

\* the conntrack table of dispatch.go and the objects it points to
tables == <<conntrackTable, conntrackRows>>

\* an external inspector of the conntrack table
inspection == <<inspected, ninspect>>

\* the warehouse playback and its cleanup lists
warehouse == <<nfCleanupList, ctCleanupList, cleanupMutex, playbackPc, ncleanups>>

\* what the stats plugin computes from packets and interface counters
sampling == <<hopCall, nhops, previous, lastDiff, ncalc>>

\* conntrack_thread from its start to its return
thread == <<threadPc, nfcth, handleOpen, startupRet, threadRet, childCalls,
            ncatch>>

\* the calls of Shutdown when several goroutines make one
callers == <<shutdownCalls>>

\* the goroutines callSubscribers starts
tasks == <<wrappers, handlerTasks>>

\* the state of the services around the dispatch
services == <<stats, shim, tables, inspection, warehouse, tasks, sampling, callers, thread>>

\* the state of nfqueueCallback and the session table
core == <<nfqueueList, sessions, sessionTable, conntrackIndex, sessionIndex,
          dict, disp, npackets, returned, released, acctLog>>

\* the state the one-step actions of the packet path leave alone
side == <<registration, locks, cleaning, services>>

vars == <<nfqueueList, sessions, sessionTable, conntrackIndex, sessionIndex,
          dict, disp, npackets, returned, released, acctLog, side>>

\* a map[uint32]bool that is nil
NilList == [nil |-> TRUE, ids |-> {}]

\* make(map[uint32]bool) with the keys ids put into it
MadeList(ids) == [nil |-> FALSE, ids |-> ids]

\* no event has been handed to conntrack_callback
NoEvent == [type |-> "none", proto |-> 0, saddr |-> 0, daddr |-> 0]

\* go_conntrack_callback has not been called
NoDelivery ==
    [msg_type |-> "", orig_proto |-> 0, orig_saddr |-> 0, orig_daddr |-> 0,
     shutdown |-> 0]

\* the locals of a worker that is not inside nfqueueCallback; merged,
\* collected, timedOut and inMark are history: the marks real handler results
\* carried, the handlers whose result was collected, those whose guard fired,
\* and the mark the call was entered with
IdleWorker ==
    [ pc |-> "idle", ctid |-> 0, pkt |-> ArpPacket,
      pmark |-> 0, inMark |-> 0, newSession |-> FALSE, session |-> Nil,
      ClientToServer |-> FALSE, sublist |-> <<>>, subcount |-> 0,
      priority |-> 0, pending |-> {}, collected |-> {}, timedOut |-> {},
      merged |-> 0,
      counters |-> <<0, 0, 0>> ]

\* logHopCount has not been called
NoHopCall == [ctid |-> 0, name |-> "", layer |-> "none", ttl |-> 0, hops |-> 0]

\* a uint64 as four 16-bit limbs, the lowest first
Zero64 == <<0, 0, 0, 0>>

\* calculateDifference has not been called
NoDiff == [previous |-> Zero64, current |-> Zero64, diff |-> Zero64]

\* the zero NfqueueResult
NoResult == [Owner |-> "", PacketMark |-> 0, SessionRelease |-> FALSE]

\* no guarded task is running for a handler
NoWrapper == [pc |-> "none", call |-> 0, held |-> NoResult, timedOut |-> FALSE]

\* the goroutines that call Shutdown
Callers == {"main", "signal"}

\* no call has returned yet
NoReturn ==
    [ via |-> "none", verdict |-> -1, pmark |-> 0,
      ctid |-> 0, pkt |-> ArpPacket, inMark |-> 0,
      session |-> Nil, sublist |-> {},
      collected |-> {}, timedOut |-> {}, merged |-> 0 ]

\* the state Startup leaves, but for the registry the plugins fill
InitRest ==
    /\ sessions = <<>>
    /\ sessionTable = [k \in TableKeys |-> Nil]
    /\ conntrackIndex = [c \in CtIds |-> Nil]
    /\ sessionIndex = EpochSeconds * (2 ^ 16)
    /\ dict = {}
    /\ disp = [w \in Workers |-> IdleWorker]
    /\ npackets = 0
    /\ returned = NoReturn
    /\ released = {}
    /\ acctLog = <<>>
    /\ nfqueueSubList = <<>>
    /\ conntrackSubList = <<>>
    /\ netloggerSubList = <<>>
    /\ fatal = FALSE
    /\ ninserts = 0
    /\ subLocker = [w \in Workers |-> Nil]
    /\ taking = [w \in Workers |-> ""]
    /\ nfqueueListMutex = ""
    /\ inserting = Holder("", 0)
    /\ attachView = [w \in Workers |-> <<>>]
    /\ cleanerPc = "select"
    /\ shutdownPc = "idle"
    /\ counter = 0
    /\ attachments = {}
    /\ statsAsked = {}
    /\ g_shutdown = 0
    /\ shimPc = "catch"
    /\ shimEvent = NoEvent
    /\ tracker_error = 0
    /\ tracker_unknown = 0
    /\ nevents = 0
    /\ delivered = NoDelivery
    /\ conntrackTable = [c \in CtIds |-> Nil]
    /\ conntrackRows = <<>>
    /\ inspected = [c \in CtIds |-> Nil]
    /\ ninspect = 0
    /\ nfCleanupList = NilList
    /\ ctCleanupList = NilList
    /\ cleanupMutex = ""
    /\ playbackPc = "none"
    /\ ncleanups = 0
    /\ wrappers = [w \in Workers |-> [k \in Owners |-> NoWrapper]]
    /\ handlerTasks = {}
    /\ hopCall = NoHopCall
    /\ nhops = 0
    /\ previous = Zero64
    /\ lastDiff = NoDiff
    /\ ncalc = 0
    /\ shutdownCalls = [c \in Callers |-> "idle"]
    /\ threadPc = "start"
    /\ nfcth = "NULL"
    /\ handleOpen = FALSE
    /\ startupRet = 0
    /\ threadRet = -1
    /\ childCalls = <<>>
    /\ ncatch = 0

Init ==
    /\ nfqueueList \in Registries
    /\ InitRest

\* a panic in any goroutine ends the process
Crashed == fatal \/ \E w \in Workers : disp[w].pc = "panic"

\* ------------------------------------------- session table and dict

\* findSessionEntry(finder)
findSessionEntry(finder) == sessionTable[finder]

\* insertSessionEntry(finder, entry): both indexes, replacing any prior entry
insertSessionEntry(finder, entry) ==
    /\ sessionTable' = [sessionTable EXCEPT ![finder] = entry]
    /\ conntrackIndex' = [conntrackIndex EXCEPT ![sessions[entry].ConntrackID] = entry]

\* removeSessionEntry(finder): the record leaves both indexes
removeSessionEntry(finder) ==
    LET old == sessionTable[finder] IN
    /\ sessionTable' = [sessionTable EXCEPT ![finder] = Nil]
    /\ conntrackIndex' =
         IF old = Nil THEN conntrackIndex
         ELSE [c \in CtIds |-> IF conntrackIndex[c] = old THEN Nil ELSE conntrackIndex[c]]

\* dict.AddSessionEntry(ctid, key, value)
AddSessionEntry(d, ctid, key, value) ==
    {e \in d : ~(e[1] = ctid /\ e[2] = key)} \cup {<<ctid, key, value>>}

\* a counter that hands out its value without advancing
NextSessionIndexStuck(index) == index

\* nextSessionID: the counter after it has handed out its value; the seed is
\* below 2^48, so the 64-bit counter does not wrap
NextSessionIndex(index) == index + 1

\* a createSessionEntry that leaves out AttachNfqueueSubscriptions
NewSessionEntryNoAttach(id, ctid, pkt) ==
    [ SessionID |-> id,
      ConntrackID |-> ctid,
      PacketCount |-> 1,
      ByteCount |-> pkt.length,
      EventCount |-> 1,
      ClientSideTuple |-> MsgTuple(pkt),
      ConntrackConfirmed |-> FALSE,
      subscriptions |-> <<>> ]

\* the session a fresh createSessionEntry builds before it is inserted
NewSessionEntry(id, ctid, pkt) ==
    [ SessionID |-> id,
      ConntrackID |-> ctid,
      PacketCount |-> 1,
      ByteCount |-> pkt.length,
      EventCount |-> 1,
      ClientSideTuple |-> MsgTuple(pkt),
      ConntrackConfirmed |-> FALSE,
      subscriptions |-> nfqueueList ]

\* a mirror that copies the registry instead of the session's own map
MirrorRegistry(s) == nfqueueList

\* MirrorNfqueueSubscriptions(session): a copy taken under subLocker
MirrorNfqueueSubscriptions(s) == sessions[s].subscriptions

\* a release that sets the bypass flag whenever it has removed an owner
ReleaseSessionAlwaysFlags(s, owner) ==
    LET subs == sessions[s].subscriptions
        origLen == Cardinality(DOMAIN subs)
        after == MapDelete(subs, owner)
    IN  IF origLen = 0
        THEN UNCHANGED <<sessions, dict>>
        ELSE /\ sessions' = [sessions EXCEPT ![s].subscriptions = after]
             /\ dict' = AddSessionEntry(dict, sessions[s].ConntrackID,
                                        "bypass_packetd", TRUE)

\* ReleaseSession(session, owner), all of it under the session's subLocker
ReleaseSession(s, owner) ==
    LET subs == sessions[s].subscriptions
        origLen == Cardinality(DOMAIN subs)
        after == MapDelete(subs, owner)
    IN  IF origLen = 0
        THEN UNCHANGED <<sessions, dict>>
        ELSE /\ sessions' = [sessions EXCEPT ![s].subscriptions = after]
             /\ dict' = IF Cardinality(DOMAIN after) = 0
                        THEN AddSessionEntry(dict, sessions[s].ConntrackID,
                                             "bypass_packetd", TRUE)
                        ELSE dict

\* ------------------------------------------------- nfqueueCallback

\* a callback that creates a session on every miss
AfterLookupAlwaysCreate(s, newSession) ==
    IF s = Nil
    THEN "create"
    ELSE (IF newSession THEN "collision" ELSE "account")

\* where nfqueueCallback goes once lookupSessionEntry has answered
AfterLookup(s, newSession) ==
    IF s = Nil
    THEN (IF newSession THEN "create" ELSE "bypass")
    ELSE (IF newSession THEN "collision" ELSE "account")

\* a dispatch that drops
VerdictDrop == NfDrop

\* the verdict nfqueueCallback and callSubscribers return
Verdict == NfAccept

\* an early return that clears the mark
NonIPMarkCleared(pmark) == 0

\* the mark returned for a packet without an IP layer
NonIPMark(pmark) == pmark

\* return (verdict, pmark) from the call with locals d, at the return
\* statement named by via: the verdict and the mark the shim receives, and
\* what the call was given and did
Return(d, via, verdict, pmark) ==
    [ via |-> via, verdict |-> verdict, pmark |-> pmark,
      ctid |-> d.ctid, pkt |-> d.pkt, inMark |-> d.inMark,
      session |-> d.session, sublist |-> DOMAIN d.sublist,
      collected |-> d.collected, timedOut |-> d.timedOut, merged |-> d.merged ]

\* Entry of nfqueueCallback: parse the layers; a packet without an IP layer
\* is accepted at once, otherwise lookupSessionEntry probes the forward tuple.
ReceiveWithin(w, ctid, pkt, pmark, limit) ==
    LET fresh == [IdleWorker EXCEPT !.ctid = ctid, !.pkt = pkt, !.pmark = pmark,
                                    !.inMark = pmark]
        hit == findSessionEntry(TupleString(MsgTuple(pkt)))
        newSession == IsNewSession(pmark)
    IN  /\ ~Crashed
        /\ disp[w].pc = "idle"
        /\ npackets < limit
        /\ npackets' = npackets + 1
        /\ returned' = IF ~HasIPLayer(pkt)
                       THEN Return(fresh, "noip", Verdict, NonIPMark(pmark))
                       ELSE returned
        /\ disp' = [disp EXCEPT ![w] =
              IF ~HasIPLayer(pkt)
              THEN IdleWorker
              ELSE IF hit # Nil
              THEN [fresh EXCEPT !.newSession = newSession, !.session = hit,
                                 !.ClientToServer = TRUE,
                                 !.pc = AfterLookup(hit, newSession)]
              ELSE [fresh EXCEPT !.newSession = newSession, !.pc = "reverse"]]
        /\ UNCHANGED <<side, nfqueueList, sessions, sessionTable, conntrackIndex,
                       sessionIndex, dict, released, acctLog>>

\* the packets of a run as the shim hands them over
Receive(w, ctid, pkt, pmark) == ReceiveWithin(w, ctid, pkt, pmark, MaxPackets)

\* lookupSessionEntry, second probe: the tuple in reverse
ProbeReverse(w) ==
    LET d == disp[w]
        hit == findSessionEntry(TupleStringReverse(MsgTuple(d.pkt)))
    IN  /\ ~Crashed
        /\ d.pc = "reverse"
        /\ disp' = [disp EXCEPT ![w] =
              [d EXCEPT !.session = hit, !.ClientToServer = (hit = Nil),
                        !.pc = AfterLookup(hit, d.newSession)]]
        /\ UNCHANGED <<side, nfqueueList, sessions, sessionTable, conntrackIndex,
                       sessionIndex, dict, npackets, returned, released, acctLog>>

\* no session and not a new flow: set the bypass flag and accept
Bypass(w) ==
    LET d == disp[w] IN
    /\ ~Crashed
    /\ d.pc = "bypass"
    /\ dict' = AddSessionEntry(dict, d.ctid, "bypass_packetd", TRUE)
    /\ disp' = [disp EXCEPT ![w] = IdleWorker]
    /\ returned' = Return(d, "bypass", Verdict, d.pmark)
    /\ UNCHANGED <<side, nfqueueList, sessions, sessionTable, conntrackIndex,
                   sessionIndex, npackets, released, acctLog>>

\* a collision handling that evicts whatever it found
AfterCollisionAlwaysRemove(confirmed) == "remove"

\* if session.ConntrackConfirmed: log and keep; else remove and re-create
AfterCollision(confirmed) == IF confirmed THEN "account" ELSE "remove"

\* a new flow found a session: keep it if conntrack confirmed it
Collision(w) ==
    LET d == disp[w] IN
    /\ ~Crashed
    /\ d.pc = "collision"
    /\ disp' = [disp EXCEPT ![w] =
          [d EXCEPT !.pc = AfterCollision(sessions[d.session].ConntrackConfirmed)]]
    /\ UNCHANGED <<side, nfqueueList, sessions, sessionTable, conntrackIndex,
                   sessionIndex, dict, npackets, returned, released, acctLog>>

\* removeSessionEntry(mess.MsgTuple.String()) of the unconfirmed session
Remove(w) ==
    LET d == disp[w] IN
    /\ ~Crashed
    /\ d.pc = "remove"
    /\ removeSessionEntry(TupleString(MsgTuple(d.pkt)))
    /\ disp' = [disp EXCEPT ![w] = [d EXCEPT !.pc = "create"]]
    /\ UNCHANGED <<side, nfqueueList, sessions, sessionIndex, dict, npackets, returned,
                   released, acctLog>>

\* createSessionEntry up to AttachNfqueueSubscriptions: the session takes the
\* next session id and a copy of the registry, and is not yet in the table
Create(w) ==
    LET d == disp[w] IN
    /\ ~Crashed
    /\ d.pc = "create"
    /\ sessionIndex' = NextSessionIndex(sessionIndex)
    /\ sessions' = Append(sessions, NewSessionEntry(sessionIndex, d.ctid, d.pkt))
    /\ acctLog' = Append(acctLog, <<0, 0>>)
    /\ disp' = [disp EXCEPT ![w] = [d EXCEPT !.session = Len(sessions) + 1,
                                             !.pc = "insert"]]
    /\ UNCHANGED <<side, nfqueueList, sessionTable, conntrackIndex, dict, npackets, returned,
                   released>>

\* createSessionEntry's insertSessionEntry(mess.MsgTuple.String(), session)
Insert(w) ==
    LET d == disp[w] IN
    /\ ~Crashed
    /\ d.pc = "insert"
    /\ insertSessionEntry(TupleString(MsgTuple(d.pkt)), d.session)
    /\ disp' = [disp EXCEPT ![w] = [d EXCEPT !.pc = "account"]]
    /\ UNCHANGED <<side, nfqueueList, sessions, sessionIndex, dict, npackets, returned,
                   released, acctLog>>

\* "Update some accounting bits": the loads of the unsynchronised ++ and +=
AccountRead(w) ==
    LET d == disp[w]
        s == sessions[d.session]
    IN  /\ ~Crashed
        /\ d.pc = "account"
        /\ disp' = [disp EXCEPT ![w] =
              [d EXCEPT !.counters = <<s.PacketCount, s.ByteCount, s.EventCount>>,
                        !.pc = "accountw"]]
        /\ UNCHANGED <<side, nfqueueList, sessions, sessionTable, conntrackIndex,
                       sessionIndex, dict, npackets, returned, released, acctLog>>

\* an accounting that also takes over the conntrack id of the packet
AccountWriteAdopts(w) ==
    LET d == disp[w]
        s == d.session
    IN  /\ ~Crashed
        /\ d.pc = "accountw"
        /\ sessions' = [sessions EXCEPT
              ![s].PacketCount = d.counters[1] + 1,
              ![s].ByteCount = d.counters[2] + d.pkt.length,
              ![s].EventCount = d.counters[3] + 1,
              ![s].ConntrackID = d.ctid]
        /\ acctLog' = [acctLog EXCEPT ![s] = <<@[1] + 1, @[2] + d.pkt.length>>]
        /\ disp' = [disp EXCEPT ![w] = [d EXCEPT !.pc = "mirror"]]
        /\ UNCHANGED <<side, nfqueueList, sessionTable, conntrackIndex, sessionIndex,
                       dict, npackets, returned, released>>

\* the stores of PacketCount++, ByteCount += length, EventCount++
AccountWrite(w) ==
    LET d == disp[w]
        s == d.session
    IN  /\ ~Crashed
        /\ d.pc = "accountw"
        /\ sessions' = [sessions EXCEPT
              ![s].PacketCount = d.counters[1] + 1,
              ![s].ByteCount = d.counters[2] + d.pkt.length,
              ![s].EventCount = d.counters[3] + 1]
        /\ acctLog' = [acctLog EXCEPT ![s] = <<@[1] + 1, @[2] + d.pkt.length>>]
        /\ disp' = [disp EXCEPT ![w] = [d EXCEPT !.pc = "mirror"]]
        /\ UNCHANGED <<side, nfqueueList, sessionTable, conntrackIndex, sessionIndex,
                       dict, npackets, returned, released>>

\* --------------------------------------------------- callSubscribers

\* The outer loop from its test "subcount != subtotal" down to the first
\* priority that has a handler to call: a priority without handlers collects
\* nothing, increments the priority and runs into the "priority > 100" check.
LoopTop(sublist, subcount, priority) ==
    IF subcount = Cardinality(DOMAIN sublist)
    THEN [kind |-> "return", priority |-> priority]
    ELSE LET ahead == {q \in priority .. MaxPriority : LayerOf(sublist, q) # {}}
         IN  IF ahead # {}
             THEN [kind |-> "launch",
                   priority |-> CHOOSE q \in ahead : \A r \in ahead : q <= r]
             ELSE [kind |-> "panic", priority |-> MaxPriority + 1]

\* an outer loop that starts no task for a handler the session has released
\* since the snapshot was taken
RunLoopSkipReleased(d) ==
    LET top == LoopTop(d.sublist, d.subcount, d.priority)
        layer == LayerOf(d.sublist, top.priority)
    IN  IF top.kind = "return"
        THEN IdleWorker
        ELSE IF top.kind = "panic"
        THEN [d EXCEPT !.pc = "panic", !.priority = top.priority]
        ELSE [d EXCEPT !.pc = "collect", !.priority = top.priority,
                       !.pending = layer \cap DOMAIN sessions[d.session].subscriptions,
                       !.subcount = d.subcount + Cardinality(layer)]

\* The locals once the outer loop, entered at its test with locals d, has
\* started one guarded task per handler of the next layer, or has ended: all
\* subscribers called (the call returns), or priority > 100 (panic)
RunLoop(d) ==
    LET top == LoopTop(d.sublist, d.subcount, d.priority)
        layer == LayerOf(d.sublist, top.priority)
    IN  IF top.kind = "return"
        THEN IdleWorker
        ELSE IF top.kind = "panic"
        THEN [d EXCEPT !.pc = "panic", !.priority = top.priority]
        ELSE [d EXCEPT !.pc = "collect", !.priority = top.priority,
                       !.pending = layer,
                       !.subcount = d.subcount + Cardinality(layer)]

\* sublist := MirrorNfqueueSubscriptions(session); subcount, priority := 0;
\* then the outer loop up to the first layer's tasks
Mirror(w) ==
    LET d == disp[w]
        entered == [d EXCEPT !.sublist = MirrorNfqueueSubscriptions(d.session),
                             !.subcount = 0, !.priority = 0]
    IN
    /\ ~Crashed
    /\ d.pc = "mirror"
    /\ disp' = [disp EXCEPT ![w] = RunLoop(entered)]
    /\ returned' = IF disp'[w].pc = "idle"
                   THEN Return(entered, "fanout", Verdict, entered.pmark)
                   ELSE returned
    /\ UNCHANGED <<side, nfqueueList, sessions, sessionTable, conntrackIndex,
                   sessionIndex, dict, npackets, released, acctLog>>

\* The task of handler key delivers its result on resultsChannel (the
\* handler's own, or the synthesized one when the guard fired first) and the
\* collecting loop takes it: the mark is merged, a release is carried out;
\* after the layer's last result the priority is incremented and checked,
\* and the outer loop goes on to the next layer's tasks.
Collect(w, key, result, timedOut) ==
    LET d == disp[w]
        left == d.pending \ {key}
        taken == [d EXCEPT !.pmark = MergeMark(d.pmark, result),
                           !.pending = left,
                           !.collected = d.collected \cup {key},
                           !.timedOut = d.timedOut \cup (IF timedOut THEN {key} ELSE {}),
                           !.merged = IF timedOut THEN d.merged
                                      ELSE BitOr(d.merged, result.PacketMark)]
    IN  /\ ~Crashed
        /\ d.pc = "collect"
        /\ key \in d.pending
        /\ IF result.SessionRelease
           THEN /\ ReleaseSession(d.session, result.Owner)
                /\ released' = released \cup
                      (IF result.Owner \in Owners
                       THEN {<<d.session, result.Owner>>} ELSE {})
           ELSE UNCHANGED <<sessions, dict, released>>
        /\ disp' = [disp EXCEPT ![w] =
              IF left # {} THEN taken
              ELSE IF d.priority + 1 > MaxPriority
              THEN [taken EXCEPT !.pc = "panic", !.priority = d.priority + 1]
              ELSE RunLoop([taken EXCEPT !.priority = d.priority + 1])]
        /\ returned' = IF disp'[w].pc = "idle"
                       THEN Return(taken, "fanout", Verdict, taken.pmark)
                       ELSE returned
        /\ UNCHANGED <<side, nfqueueList, sessionTable, conntrackIndex, sessionIndex,
                       npackets, acctLog>>

\* the handler returned before its guard fired
HandlerReturns(w) ==
    \E key \in Owners : \E result \in HandlerResults(key) :
        Collect(w, key, result, FALSE)

\* the 30 second guard fired first
HandlerTimesOut(w) ==
    \E key \in Owners : Collect(w, key, TimeoutResult(key), TRUE)

\* ------------------------------------------ the tasks of callSubscribers

\* a send on a channel made without a buffer, nobody receiving
HandlerSendUnbuffered(c, result) == [c |-> c, pc |-> "blocked"]

\* c <- val.NfqueueFunc(...) on c := make(chan NfqueueResult, 1): the send
\* completes while the buffer has room, and parks the task otherwise
HandlerSend(c, result) ==
    IF Len(c) < 1
    THEN [c |-> Append(c, result), pc |-> "exited"]
    ELSE [c |-> c, pc |-> "blocked"]

\* the task that runs the handler of key for the guarded task of worker w
HandlerTaskOf(w, key) ==
    {t \in handlerTasks : t.w = w /\ t.key = key /\ t.call = wrappers[w][key].call}

\* a layer of which only one handler gets its guarded task
LaunchedFirst(from, w, layer) ==
    [from EXCEPT ![w] = [k \in Owners |->
        IF k \in layer /\ k = (CHOOSE f \in layer : TRUE)
        THEN [pc |-> "select", call |-> npackets, held |-> NoResult,
              timedOut |-> FALSE]
        ELSE from[w][k]]]

\* the guarded tasks of worker w once one has been started, with its
\* handler task, for every handler of layer; from is the map before
Launched(from, w, layer) ==
    [from EXCEPT ![w] = [k \in Owners |->
        IF k \in layer
        THEN [pc |-> "select", call |-> npackets, held |-> NoResult,
              timedOut |-> FALSE]
        ELSE from[w][k]]]

\* the handler tasks started with them
LaunchedHandlers(w, layer) ==
    {[w |-> w, key |-> k, call |-> npackets, pc |-> "running", c |-> <<>>] :
        k \in layer}

\* sublist := MirrorNfqueueSubscriptions(session), and the outer loop up to
\* the "go func(key, val)" of every handler of the first layer
MirrorTasks(w) ==
    LET d == disp[w]
        entered == [d EXCEPT !.sublist = MirrorNfqueueSubscriptions(d.session),
                             !.subcount = 0, !.priority = 0]
        after == RunLoop(entered)
    IN
    /\ ~Crashed
    /\ d.pc = "mirror"
    /\ disp' = [disp EXCEPT ![w] = after]
    /\ returned' = IF after.pc = "idle"
                   THEN Return(entered, "fanout", Verdict, entered.pmark)
                   ELSE returned
    /\ wrappers' = Launched(wrappers, w, after.pending)
    /\ handlerTasks' = handlerTasks \cup LaunchedHandlers(w, after.pending)
    /\ UNCHANGED <<registration, locks, cleaning, thread, callers, sampling, stats, shim, tables,
                   inspection, warehouse, nfqueueList, sessions, sessionTable,
                   conntrackIndex, sessionIndex, dict, npackets, released,
                   acctLog>>

\* the handler of key that call number call started returns result, and its
\* task sends it on c
HandlerFinishes(key, call, result) ==
    /\ ~Crashed
    /\ \E t \in handlerTasks :
          LET sent == HandlerSend(t.c, result) IN
          /\ t.key = key
          /\ t.call = call
          /\ t.pc = "running"
          /\ handlerTasks' =
                (handlerTasks \ {t}) \cup {[t EXCEPT !.pc = sent.pc, !.c = sent.c]}
    /\ UNCHANGED <<core, registration, locks, cleaning, thread, callers, sampling, stats, shim, tables,
                   inspection, warehouse, wrappers>>

\* "case result := <-c": the guarded task takes the handler's result
WrapperTakes(w, key) ==
    /\ ~Crashed
    /\ wrappers[w][key].pc = "select"
    /\ \E t \in HandlerTaskOf(w, key) :
          /\ t.c # <<>>
          /\ wrappers' = [wrappers EXCEPT ![w][key].pc = "send",
                                          ![w][key].held = Head(t.c)]
          /\ handlerTasks' = handlerTasks \ {t}
    /\ UNCHANGED <<core, registration, locks, cleaning, thread, callers, sampling, stats, shim, tables,
                   inspection, warehouse>>

\* "case <-timeoutTimer.C": the guard fires and the guarded task goes on with
\* the result it synthesizes; the handler task is left behind
WrapperTimesOut(w, key) ==
    /\ ~Crashed
    /\ wrappers[w][key].pc = "select"
    /\ wrappers' = [wrappers EXCEPT ![w][key].pc = "send",
                                    ![w][key].held = TimeoutResult(key),
                                    ![w][key].timedOut = TRUE]
    /\ UNCHANGED <<core, registration, locks, cleaning, thread, callers, sampling, stats, shim, tables,
                   inspection, warehouse, handlerTasks>>

\* "resultsChannel <- result" of the guarded task of key meets
\* "result := <-resultsChannel" of the collecting loop: the mark is merged, a
\* release is carried out; after the layer's last result the priority is
\* incremented and checked and the next layer's tasks are started
CollectTask(w, key) ==
    LET d == disp[w]
        result == wrappers[w][key].held
        timedOut == wrappers[w][key].timedOut
        left == d.pending \ {key}
        taken == [d EXCEPT !.pmark = MergeMark(d.pmark, result),
                           !.pending = left,
                           !.collected = d.collected \cup {key},
                           !.timedOut = d.timedOut \cup (IF timedOut THEN {key} ELSE {}),
                           !.merged = IF timedOut THEN d.merged
                                      ELSE BitOr(d.merged, result.PacketMark)]
        after == IF left # {} THEN taken
                 ELSE IF d.priority + 1 > MaxPriority
                 THEN [taken EXCEPT !.pc = "panic", !.priority = d.priority + 1]
                 ELSE RunLoop([taken EXCEPT !.priority = d.priority + 1])
        started == after.pending \ left
    IN  /\ ~Crashed
        /\ d.pc = "collect"
        /\ wrappers[w][key].pc = "send"
        /\ IF result.SessionRelease
           THEN /\ ReleaseSession(d.session, result.Owner)
                /\ released' = released \cup
                      (IF result.Owner \in Owners
                       THEN {<<d.session, result.Owner>>} ELSE {})
           ELSE UNCHANGED <<sessions, dict, released>>
        /\ disp' = [disp EXCEPT ![w] = after]
        /\ returned' = IF after.pc = "idle"
                       THEN Return(taken, "fanout", Verdict, taken.pmark)
                       ELSE returned
        /\ wrappers' =
              Launched([wrappers EXCEPT ![w][key] = NoWrapper], w, started)
        /\ handlerTasks' = handlerTasks \cup LaunchedHandlers(w, started)
        /\ UNCHANGED <<registration, locks, cleaning, thread, callers, sampling, stats, shim, tables,
                       inspection, warehouse, nfqueueList, sessionTable,
                       conntrackIndex, sessionIndex, npackets, acctLog>>

\* ---------------------------------------------------- the stats plugin

\* pluginName
StatsName == "stats"

\* dispatch.StatsPriority is declared outside the files at hand: the plugin
\* subscribes at some priority the layer loop accepts
StatsPriorities == {0, 1, 99}

\* the registry once PluginStartup of stats has subscribed
StatsRegistries ==
    { [o \in {StatsName} |-> Holder(o, p)] : p \in StatsPriorities }

\* the TTL the packets arrive with
TTLOf(pkt) == IF pkt = ServerPacket THEN 52 ELSE 64

\* a - b on uint8
Sub8(a, b) == (a - b + 256) % 256

\* a hop count that always takes 64 for the initial TTL
HopCountFrom64(ttl) == Sub8(64, ttl)

\* logHopCount's distance from the nearest initial TTL at or above ttl, in
\* "var hops uint8"
HopCount(ttl) ==
    IF ttl <= 32 THEN Sub8(32, ttl)
    ELSE IF ttl <= 64 THEN Sub8(64, ttl)
    ELSE IF ttl <= 128 THEN Sub8(128, ttl)
    ELSE Sub8(255, ttl)

\* how many samples of an interface counter are taken in a run
MaxSamples == 3

\* the base of a limb: 2^16
LimbBase == 65536

\* the counter values read from /proc/net/dev: 0, 1, 2^16, 2^32 - 1, 2^63
\* and 2^64 - 1
U64Samples ==
    { Zero64, <<1, 0, 0, 0>>, <<0, 1, 0, 0>>, <<65535, 65535, 0, 0>>,
      <<0, 0, 0, 32768>>, <<65535, 65535, 65535, 65535>> }

\* a < b on uint64
Less64(a, b) ==
    \E i \in 1 .. 4 : a[i] < b[i] /\ \A j \in (i + 1) .. 4 : a[j] = b[j]

RECURSIVE SubLimbs(_, _, _)
\* the limbs of a - b - borrow, the borrow out of the highest limb dropped
SubLimbs(a, b, borrow) ==
    IF a = <<>> THEN <<>>
    ELSE LET d == Head(a) - Head(b) - borrow
         IN  <<(d + LimbBase) % LimbBase>> \o
             SubLimbs(Tail(a), Tail(b), IF d < 0 THEN 1 ELSE 0)

RECURSIVE AddLimbs(_, _, _)
\* the limbs of a + b + carry, the carry out of the highest limb dropped
AddLimbs(a, b, carry) ==
    IF a = <<>> THEN <<>>
    ELSE LET d == Head(a) + Head(b) + carry
         IN  <<d % LimbBase>> \o
             AddLimbs(Tail(a), Tail(b), IF d >= LimbBase THEN 1 ELSE 0)

RECURSIVE CarryOut(_, _, _)
\* the carry out of the highest limb of a + b + carry
CarryOut(a, b, carry) ==
    IF a = <<>> THEN carry
    ELSE CarryOut(Tail(a), Tail(b),
                  IF Head(a) + Head(b) + carry >= LimbBase THEN 1 ELSE 0)

\* a + b on uint64
Add64(a, b) == AddLimbs(a, b, 0)

\* a subtraction that reports a counter reset as 0
Sub64Clamped(a, b) == IF Less64(a, b) THEN Zero64 ELSE SubLimbs(a, b, 0)

\* a - b on uint64
Sub64(a, b) == SubLimbs(a, b, 0)

\* calculateDifference(&previous, current): diff := current - *previous;
\* *previous = current; return diff
calculateDifference(current) ==
    /\ ncalc < MaxSamples
    /\ ncalc' = ncalc + 1
    /\ lastDiff' = [previous |-> previous, current |-> current,
                    diff |-> Sub64(current, previous)]
    /\ previous' = current
    /\ UNCHANGED <<core, registration, locks, cleaning, thread, callers, stats, shim, tables,
                   inspection, warehouse, tasks, hopCall, nhops>>

\* how many times logHopCount is called in a run
MaxHopLogs == 1

\* the key names PluginNfqueueHandler logs hop counts under
HopNames == {"client_hops", "server_hops"}

\* logHopCount(ctid, mess, name): the TTL of the IPv4 layer, else the hop
\* limit of the IPv6 layer, else return; the hop count goes to the dict
logHopCount(ctid, layer, ttl, name) ==
    /\ nhops < MaxHopLogs
    /\ nhops' = nhops + 1
    /\ hopCall' = [ctid |-> ctid, name |-> name, layer |-> layer, ttl |-> ttl,
                   hops |-> IF layer = "none" THEN 0 ELSE HopCount(ttl)]
    /\ dict' = IF layer = "none" THEN dict
               ELSE AddSessionEntry(dict, ctid, name, HopCount(ttl))
    /\ UNCHANGED <<registration, locks, cleaning, thread, callers, stats, shim, tables,
                   inspection, warehouse, tasks, nfqueueList, sessions,
                   sessionTable, conntrackIndex, sessionIndex, disp, npackets,
                   returned, released, acctLog, previous, lastDiff, ncalc>>

\* PluginNfqueueHandler's result: "var result dispatch.NfqueueResult" with
\* SessionRelease set to true, and to false for a client to server packet;
\* Owner and PacketMark keep their zero values on every return
PluginNfqueueHandler(ClientToServer) ==
    [Owner |-> "", PacketMark |-> 0, SessionRelease |-> ~ClientToServer]

\* dict after the calls of logHopCount in PluginNfqueueHandler
StatsDict(dct, ctid, pkt, newSession, ClientToServer) ==
    LET first == IF newSession
                 THEN AddSessionEntry(dct, ctid, "client_hops", HopCount(TTLOf(pkt)))
                 ELSE dct
    IN  IF ClientToServer THEN first
        ELSE AddSessionEntry(first, ctid, "server_hops", HopCount(TTLOf(pkt)))

\* dct after ReleaseSession(session s, owner)
ReleaseDict(dct, s, owner) ==
    LET subs == sessions[s].subscriptions IN
    IF DOMAIN subs # {} /\ DOMAIN subs \subseteq {owner}
    THEN AddSessionEntry(dct, sessions[s].ConntrackID, "bypass_packetd", TRUE)
    ELSE dct

\* The stats handler runs on the packet and returns before its guard fires,
\* and the collecting loop takes its result: stats_timer is attached to a
\* new session, the hop counts go to the dict, the mark is merged and the
\* release the result asks for is carried out under result.Owner; stats is
\* the only handler, so the loop goes on to the priority check and returns.
StatsReturns(w) ==
    LET d == disp[w]
        s == d.session
        result == PluginNfqueueHandler(d.ClientToServer)
        taken == [d EXCEPT !.pmark = MergeMark(d.pmark, result),
                           !.pending = d.pending \ {StatsName},
                           !.collected = d.collected \cup {StatsName},
                           !.merged = BitOr(d.merged, result.PacketMark)]
        ran == StatsDict(dict, d.ctid, d.pkt, d.newSession, d.ClientToServer)
    IN  /\ ~Crashed
        /\ d.pc = "collect"
        /\ StatsName \in d.pending
        /\ attachments' = IF d.newSession
                          THEN attachments \cup {<<s, "stats_timer">>}
                          ELSE attachments
        /\ statsAsked' = IF result.SessionRelease
                         THEN statsAsked \cup {s} ELSE statsAsked
        /\ IF result.SessionRelease
           THEN /\ sessions' = [sessions EXCEPT ![s].subscriptions =
                                   MapDelete(@, result.Owner)]
                /\ dict' = ReleaseDict(ran, s, result.Owner)
           ELSE /\ dict' = ran
                /\ UNCHANGED sessions
        /\ disp' = [disp EXCEPT ![w] =
              IF taken.pending # {} THEN taken
              ELSE IF d.priority + 1 > MaxPriority
              THEN [taken EXCEPT !.pc = "panic", !.priority = d.priority + 1]
              ELSE RunLoop([taken EXCEPT !.priority = d.priority + 1])]
        /\ returned' = IF disp'[w].pc = "idle"
                       THEN Return(taken, "fanout", Verdict, taken.pmark)
                       ELSE returned
        /\ UNCHANGED <<registration, locks, cleaning, thread, callers, sampling, tasks, shim, tables, inspection,
                       warehouse, nfqueueList,
                       sessionTable, conntrackIndex, sessionIndex, npackets,
                       released, acctLog>>

\* the guard of the stats handler fires first: the synthesized result
\* carries the name stats subscribed under
StatsGuardFires(w) == Collect(w, StatsName, TimeoutResult(StatsName), TRUE)

\* ------------------------------------------------ the conntrack shim

IPPROTO_TCP == 6

IPPROTO_UDP == 17

IPPROTO_ICMP == 1

\* enum nf_conntrack_msg_type as the callback's switch sees it
EventTypes == {"NEW", "UPDATE", "DESTROY", "ERROR", "OTHER"}

\* ATTR_ORIG_IPV4_SRC / ATTR_ORIG_IPV4_DST as the u_int32_t the shim reads on
\* a little-endian host: 127.0.0.1, 10.0.0.1 and 10.0.0.127
ShimAddresses == {16777343, 16777226, 2130706442}

\* the most significant byte of a u_int32_t
HighByte(a) == a \div 16777216

\* a & 0x000000FF
LowByte(a) == a % 256

\* info.msg_type for the three types that are passed on
MsgType(type) ==
    IF type = "NEW" THEN "N" ELSE IF type = "UPDATE" THEN "U" ELSE "D"

\* whether conntrack_callback, past its switch, reaches go_conntrack_callback
Passes(ev) ==
    /\ ev.proto \in {IPPROTO_TCP, IPPROTO_UDP}
    /\ LowByte(ev.saddr) # 127
    /\ LowByte(ev.daddr) # 127

\* nfct_catch calls conntrack_callback with an event; the callback tests
\* g_shutdown and returns NFCT_CB_STOP when it is set, which ends the loop of
\* conntrack_thread
conntrack_callback(type, proto, saddr, daddr) ==
    /\ shimPc = "catch"
    /\ nevents < MaxEvents
    /\ nevents' = nevents + 1
    /\ IF g_shutdown # 0
       THEN /\ shimPc' = "terminated"
            /\ UNCHANGED shimEvent
       ELSE /\ shimPc' = "switch"
            /\ shimEvent' = [type |-> type, proto |-> proto,
                             saddr |-> saddr, daddr |-> daddr]
    /\ UNCHANGED <<core, registration, locks, cleaning, thread, callers, sampling, tasks, stats, tables,
                   inspection, warehouse, g_shutdown,
                   tracker_error, tracker_unknown, delivered>>

\* the rest of conntrack_callback: the switch on the type, the protocol and
\* loopback tests, and the call of go_conntrack_callback with info; no
\* session is in the table in the runs of the shim, so that the callback on
\* the Go side finds nothing to confirm or remove
ConntrackFilter ==
    LET ev == shimEvent IN
    /\ shimPc = "switch"
    /\ shimPc' = "catch"
    /\ shimEvent' = NoEvent
    /\ tracker_error' = tracker_error + (IF ev.type = "ERROR" THEN 1 ELSE 0)
    /\ tracker_unknown' = tracker_unknown + (IF ev.type = "OTHER" THEN 1 ELSE 0)
    /\ delivered' =
          IF ev.type \in {"NEW", "UPDATE", "DESTROY"} /\ Passes(ev)
          THEN [msg_type |-> MsgType(ev.type), orig_proto |-> ev.proto,
                orig_saddr |-> ev.saddr, orig_daddr |-> ev.daddr,
                shutdown |-> g_shutdown]
          ELSE delivered
    /\ UNCHANGED <<core, registration, locks, cleaning, thread, callers, sampling, tasks, stats, tables,
                   inspection, warehouse, g_shutdown,
                   nevents>>

\* conntrack_goodbye, called from another thread: g_shutdown = 1
conntrack_goodbye ==
    /\ g_shutdown = 0
    /\ g_shutdown' = 1
    /\ UNCHANGED <<core, registration, locks, cleaning, thread, callers, sampling, tasks, stats, tables,
                   inspection, warehouse, shimPc,
                   shimEvent, tracker_error, tracker_unknown, nevents,
                   delivered>>

\* conntrack_startup as conntrack_thread calls it: nfct_open gives a handle
\* or NULL, nfct_callback_register succeeds or fails
conntrack_startup(opened, registered) ==
    /\ threadPc = "start"
    /\ threadPc' = "started"
    /\ nfcth' = IF opened THEN "handle" ELSE "NULL"
    /\ handleOpen' = opened
    /\ startupRet' = IF ~opened THEN 1 ELSE IF ~registered THEN 2 ELSE 0
    /\ g_shutdown' = IF opened /\ registered THEN g_shutdown ELSE 1
    /\ UNCHANGED <<core, registration, cleaning, locks, callers, sampling,
                   tasks, stats, tables, inspection, warehouse, shimPc,
                   shimEvent, tracker_error, tracker_unknown, nevents,
                   delivered, threadRet, childCalls, ncatch>>

\* "if (ret != 0)": conntrack_thread sets g_shutdown and returns 1, or goes
\* on to go_child_startup() and its loop
StartupChecked ==
    /\ threadPc = "started"
    /\ IF startupRet # 0
       THEN /\ g_shutdown' = 1
            /\ threadRet' = 1
            /\ threadPc' = "returned"
            /\ UNCHANGED childCalls
       ELSE /\ childCalls' = Append(childCalls, "go_child_startup")
            /\ threadPc' = "loop"
            /\ UNCHANGED <<g_shutdown, threadRet>>
    /\ UNCHANGED <<core, registration, cleaning, locks, callers, sampling,
                   tasks, stats, tables, inspection, warehouse, shimPc,
                   shimEvent, tracker_error, tracker_unknown, nevents,
                   delivered, nfcth, handleOpen, startupRet, ncatch>>

\* "while (g_shutdown == 0)": the test of the loop
LoopTest ==
    /\ threadPc = "loop"
    /\ threadPc' = IF g_shutdown = 0 THEN "catch" ELSE "shutdown"
    /\ UNCHANGED <<core, registration, cleaning, locks, callers, sampling,
                   tasks, stats, tables, inspection, warehouse, shim, nfcth,
                   handleOpen, startupRet, threadRet, childCalls, ncatch>>

\* nfct_catch(nfcth) returns: a callback returned NFCT_CB_STOP or a signal
\* arrived
nfct_catch ==
    /\ threadPc = "catch"
    /\ ncatch < MaxCatches
    /\ ncatch' = ncatch + 1
    /\ threadPc' = "loop"
    /\ UNCHANGED <<core, registration, cleaning, locks, callers, sampling,
                   tasks, stats, tables, inspection, warehouse, shim, nfcth,
                   handleOpen, startupRet, threadRet, childCalls>>

\* conntrack_shutdown(): nothing with a NULL handle; otherwise the callback is
\* unregistered, the handle closed and nfcth cleared
conntrack_shutdown ==
    /\ threadPc = "shutdown"
    /\ threadPc' = "goodbye"
    /\ IF nfcth = "NULL"
       THEN UNCHANGED <<nfcth, handleOpen>>
       ELSE /\ handleOpen' = FALSE
            /\ nfcth' = "NULL"
    /\ UNCHANGED <<core, registration, cleaning, locks, callers, sampling,
                   tasks, stats, tables, inspection, warehouse, shim,
                   startupRet, threadRet, childCalls, ncatch>>

\* go_child_goodbye(); return(0)
ThreadReturns ==
    /\ threadPc = "goodbye"
    /\ childCalls' = Append(childCalls, "go_child_goodbye")
    /\ threadRet' = 0
    /\ threadPc' = "returned"
    /\ UNCHANGED <<core, registration, cleaning, locks, callers, sampling,
                   tasks, stats, tables, inspection, warehouse, shim, nfcth,
                   handleOpen, startupRet, ncatch>>

\* ------------------------------------------------ the conntrack table

\* a Conntrack as the consumer of conntrack events allocates it
NewConntrack(ctid) == [ConntrackID |-> ctid, EventCount |-> 1]

\* newMap[k] = v for every k, v of the table: the pointers are copied
ShallowCopy(table) == table

\* the consumer of conntrack events puts a row for a new conntrack id into
\* the table
ConntrackRowAdded(ctid) ==
    /\ conntrackTable[ctid] = Nil
    /\ conntrackRows' = Append(conntrackRows, NewConntrack(ctid))
    /\ conntrackTable' = [conntrackTable EXCEPT ![ctid] = Len(conntrackRows) + 1]
    /\ UNCHANGED <<core, registration, locks, cleaning, thread, callers, sampling, tasks, stats, shim, inspection,
                   warehouse>>

\* GetConntrackTable(): a new map with the keys and the pointers of
\* conntrackTable, made under conntrackTableMutex
GetConntrackTable ==
    /\ ninspect < MaxInspections
    /\ inspected' = ShallowCopy(conntrackTable)
    /\ UNCHANGED <<core, registration, locks, cleaning, thread, callers, sampling, tasks, stats, shim, tables,
                   warehouse, ninspect>>

\* the caller deletes a key of the map it was given
InspectorDeletes(ctid) ==
    /\ ninspect < MaxInspections
    /\ inspected[ctid] # Nil
    /\ inspected' = [inspected EXCEPT ![ctid] = Nil]
    /\ ninspect' = ninspect + 1
    /\ UNCHANGED <<core, registration, locks, cleaning, thread, callers, sampling, tasks, stats, shim, tables,
                   warehouse>>

\* the caller writes a field of an entry of the map it was given
InspectorWrites(ctid) ==
    /\ ninspect < MaxInspections
    /\ inspected[ctid] # Nil
    /\ conntrackRows' = [conntrackRows EXCEPT ![inspected[ctid]].EventCount = 0]
    /\ ninspect' = ninspect + 1
    /\ UNCHANGED <<core, registration, locks, cleaning, thread, callers, sampling, tasks, stats, shim, warehouse,
                   conntrackTable, inspected>>

\* ------------------------------------------------- warehouse playback

\* the flows of the capture file a playback replays
Capture ==
    { [ctid |-> 100, pkt |-> ClientPacket], [ctid |-> 101, pkt |-> OtherPacket] }

\* HandleWarehousePlayback(): the goroutine is started and the call returns
HandleWarehousePlayback ==
    /\ playbackPc = "none"
    /\ playbackPc' = "spawned"
    /\ UNCHANGED <<core, registration, locks, cleaning, thread, callers, sampling, tasks, stats, shim, tables,
                   inspection, nfCleanupList, ctCleanupList, cleanupMutex,
                   ncleanups>>

\* the goroutine gets cleanupMutex and makes the two lists
PlaybackLocks ==
    /\ playbackPc = "spawned"
    /\ cleanupMutex = ""
    /\ cleanupMutex' = "playback"
    /\ nfCleanupList' = MadeList({})
    /\ ctCleanupList' = MadeList({})
    /\ playbackPc' = "playing"
    /\ UNCHANGED <<core, registration, locks, cleaning, thread, callers, sampling, tasks, stats, shim, tables,
                   inspection, ncleanups>>

\* kernel.WarehousePlaybackFile replays a flow of the capture: its session
\* and its conntrack entry come into the tables and its id into both lists
PlaybackFlow(ctid, pkt) ==
    LET entry == Len(sessions) + 1 IN
    /\ playbackPc = "playing"
    /\ ctid \notin nfCleanupList.ids
    /\ sessions' = Append(sessions, NewSessionEntry(sessionIndex, ctid, pkt))
    /\ sessionIndex' = NextSessionIndex(sessionIndex)
    /\ acctLog' = Append(acctLog, <<0, 0>>)
    /\ sessionTable' = [sessionTable EXCEPT ![TupleString(MsgTuple(pkt))] = entry]
    /\ conntrackIndex' = [conntrackIndex EXCEPT ![ctid] = entry]
    /\ conntrackRows' = Append(conntrackRows, NewConntrack(ctid))
    /\ conntrackTable' = [conntrackTable EXCEPT ![ctid] = Len(conntrackRows) + 1]
    /\ nfCleanupList' = MadeList(nfCleanupList.ids \cup {ctid})
    /\ ctCleanupList' = MadeList(ctCleanupList.ids \cup {ctid})
    /\ UNCHANGED <<registration, locks, cleaning, thread, callers, sampling, tasks, stats, shim, inspection,
                   nfqueueList, dict, disp, npackets, returned, released,
                   cleanupMutex, playbackPc, ncleanups>>

\* the playback function returns and the deferred Unlock runs
PlaybackUnlocks ==
    /\ playbackPc = "playing"
    /\ \A c \in Capture : c.ctid \in nfCleanupList.ids
    /\ playbackPc' = "done"
    /\ cleanupMutex' = ""
    /\ UNCHANGED <<core, registration, locks, cleaning, thread, callers, sampling, tasks, stats, shim, tables,
                   inspection, nfCleanupList, ctCleanupList, ncleanups>>

\* HandleWarehouseCleanup(), called after HandleWarehousePlayback: under
\* cleanupMutex every session recorded in nfCleanupList has its dict
\* flushed and leaves the session table, every conntrack entry recorded in
\* ctCleanupList leaves the conntrack table, and both lists become nil
HandleWarehouseCleanup ==
    LET nf == nfCleanupList.ids
        ct == ctCleanupList.ids
        gone == {conntrackIndex[c] : c \in nf} \ {Nil}
    IN  /\ playbackPc # "none"
        /\ ncleanups < MaxCleanups
        /\ cleanupMutex = ""
        /\ ncleanups' = ncleanups + 1
        /\ sessionTable' = [k \in TableKeys |->
              IF sessionTable[k] \in gone THEN Nil ELSE sessionTable[k]]
        /\ conntrackIndex' = [c \in CtIds |->
              IF conntrackIndex[c] \in gone THEN Nil ELSE conntrackIndex[c]]
        /\ dict' = {e \in dict : ~(e[1] \in nf /\ conntrackIndex[e[1]] # Nil)}
        /\ conntrackTable' = [c \in CtIds |->
              IF c \in ct THEN Nil ELSE conntrackTable[c]]
        /\ nfCleanupList' = NilList
        /\ ctCleanupList' = NilList
        /\ UNCHANGED <<registration, locks, cleaning, thread, callers, sampling, tasks, stats, shim, inspection,
                       nfqueueList, sessions, sessionIndex, disp, npackets,
                       returned, released, acctLog, conntrackRows,
                       cleanupMutex, playbackPc>>

\* -------------------------------------------- subLocker, step by step

\* one subLocker for every session
SubLockerShared(s) == 1

\* session.subLocker: every SessionEntry has a mutex of its own
SubLockerOf(s) == s

\* no task is between Lock and Unlock of the subLocker of session s
LockFree(s) == \A v \in Workers : subLocker[v] # SubLockerOf(s)

\* MirrorNfqueueSubscriptions locks, copies and unlocks: it waits for the
\* session's subLocker
MirrorLocked(w) ==
    /\ LockFree(disp[w].session)
    /\ Mirror(w)

\* a result that asks for no release is collected without a lock
CollectKeep(w) ==
    \E key \in Owners : \E result \in HandlerResults(key) :
        /\ ~result.SessionRelease
        /\ Collect(w, key, result, FALSE)

\* The collecting loop takes a result that asks for a release (the handler's
\* own, or the one of the guard), merges its mark, calls ReleaseSession and
\* gets the session's subLocker; the other tasks of the layer are running.
CollectAcquire(w, key, result, timedOut) ==
    LET d == disp[w]
        taken == [d EXCEPT !.pmark = MergeMark(d.pmark, result),
                           !.pending = d.pending \ {key},
                           !.collected = d.collected \cup {key},
                           !.timedOut = d.timedOut \cup (IF timedOut THEN {key} ELSE {}),
                           !.merged = IF timedOut THEN d.merged
                                      ELSE BitOr(d.merged, result.PacketMark),
                           !.pc = "release"]
    IN  /\ ~Crashed
        /\ d.pc = "collect"
        /\ key \in d.pending
        /\ result.SessionRelease
        /\ LockFree(d.session)
        /\ disp' = [disp EXCEPT ![w] = taken]
        /\ subLocker' = [subLocker EXCEPT ![w] = SubLockerOf(d.session)]
        /\ taking' = [taking EXCEPT ![w] = result.Owner]
        /\ UNCHANGED <<registration, cleaning, services, nfqueueList, sessions, sessionTable,
                       conntrackIndex, sessionIndex, dict, npackets, returned,
                       released, acctLog, nfqueueListMutex, inserting,
                       attachView>>

\* the handler returned sessionRelease = true before its guard fired
HandlerReleases(w) ==
    \E key \in Owners : \E result \in HandlerResults(key) :
        CollectAcquire(w, key, result, FALSE)

\* the guard fired first: its result always asks for the release
GuardReleases(w) ==
    \E key \in Owners : CollectAcquire(w, key, TimeoutResult(key), TRUE)

\* The rest of ReleaseSession and its deferred Unlock, then the collecting
\* loop goes on: to the next result of the layer, or past the layer's last
\* result to the priority check and the next layer's tasks.
CollectRelease(w) ==
    LET d == disp[w]
        owner == taking[w]
        back == [d EXCEPT !.pc = "collect"]
    IN  /\ ~Crashed
        /\ d.pc = "release"
        /\ ReleaseSession(d.session, owner)
        /\ released' = released \cup {<<d.session, owner>>}
        /\ subLocker' = [subLocker EXCEPT ![w] = Nil]
        /\ taking' = [taking EXCEPT ![w] = ""]
        /\ disp' = [disp EXCEPT ![w] =
              IF d.pending # {} THEN back
              ELSE IF d.priority + 1 > MaxPriority
              THEN [d EXCEPT !.pc = "panic", !.priority = d.priority + 1]
              ELSE RunLoop([back EXCEPT !.priority = d.priority + 1])]
        /\ returned' = IF disp'[w].pc = "idle"
                       THEN Return(d, "fanout", Verdict, d.pmark)
                       ELSE returned
        /\ UNCHANGED <<registration, cleaning, services, nfqueueList, sessionTable, conntrackIndex,
                       sessionIndex, npackets, acctLog, nfqueueListMutex,
                       inserting, attachView>>

\* ------------------------------------------- cleanerTask and Shutdown

\* a cleaner that answers the signal with one more sweep
AfterSignalSweep == "cleanSessions"

\* after the receive from shutdownCleanerTask the cleaner sends on it
AfterSignal == "ack"

\* the two indexes once cleanSessionTable has removed the sessions of stale
SweptTable(stale) ==
    [k \in TableKeys |-> IF sessionTable[k] \in stale THEN Nil ELSE sessionTable[k]]

SweptIndex(stale) ==
    [c \in CtIds |-> IF conntrackIndex[c] \in stale THEN Nil ELSE conntrackIndex[c]]

\* cleanerTask's select: the 60 second timer fires, counter++
CleanerWakes ==
    /\ ~Crashed
    /\ cleanerPc = "select"
    /\ counter < MaxSweeps
    /\ counter' = counter + 1
    /\ cleanerPc' = "cleanSessions"
    /\ UNCHANGED <<registration, locks, services, shutdownPc, nfqueueList, sessions,
                   sessionTable, conntrackIndex, sessionIndex, dict, disp,
                   npackets, returned, released, acctLog>>

\* cleanSessionTable(): the sessions that have been idle for longer than the
\* threshold leave the table; which ones depends on the clock
CleanSessionTable ==
    /\ ~Crashed
    /\ cleanerPc = "cleanSessions"
    /\ \E stale \in SUBSET ({sessionTable[k] : k \in TableKeys} \ {Nil}) :
          /\ sessionTable' = SweptTable(stale)
          /\ conntrackIndex' = SweptIndex(stale)
    /\ cleanerPc' = "cleanConntrack"
    /\ UNCHANGED <<registration, locks, services, shutdownPc, counter, nfqueueList,
                   sessions, sessionIndex, dict, disp, npackets, returned,
                   released, acctLog>>

\* cleanConntrackTable(): it sweeps the table of conntrack rows, which no
\* packet of the dispatch reads; then the loop is back at its select
CleanConntrackTable ==
    /\ ~Crashed
    /\ cleanerPc = "cleanConntrack"
    /\ cleanerPc' = "select"
    /\ UNCHANGED <<registration, locks, services, shutdownPc, counter, nfqueueList,
                   sessions, sessionTable, conntrackIndex, sessionIndex, dict,
                   disp, npackets, returned, released, acctLog>>

\* Shutdown() is called and reaches its send on shutdownCleanerTask
ShutdownCalled ==
    /\ ~Crashed
    /\ shutdownPc = "idle"
    /\ shutdownPc' = "send"
    /\ UNCHANGED <<registration, locks, services, cleanerPc, counter, nfqueueList,
                   sessions, sessionTable, conntrackIndex, sessionIndex, dict,
                   disp, npackets, returned, released, acctLog>>

\* the channel has no buffer: Shutdown's send and the receive of the
\* cleaner's select happen together; Shutdown goes on to its own select
ShutdownSignal ==
    /\ ~Crashed
    /\ shutdownPc = "send"
    /\ cleanerPc = "select"
    /\ shutdownPc' = "wait"
    /\ cleanerPc' = AfterSignal
    /\ UNCHANGED <<registration, locks, services, counter, nfqueueList, sessions,
                   sessionTable, conntrackIndex, sessionIndex, dict, disp,
                   npackets, returned, released, acctLog>>

\* the cleaner's send and the receive of Shutdown's select happen together:
\* the cleaner returns and so does Shutdown
CleanerAcks ==
    /\ ~Crashed
    /\ cleanerPc = "ack"
    /\ shutdownPc = "wait"
    /\ cleanerPc' = "done"
    /\ shutdownPc' = "acked"
    /\ UNCHANGED <<registration, locks, services, counter, nfqueueList, sessions,
                   sessionTable, conntrackIndex, sessionIndex, dict, disp,
                   npackets, returned, released, acctLog>>

\* Shutdown's select: the 10 second timer fires, the failure is logged and
\* Shutdown returns
ShutdownTimesOut ==
    /\ ~Crashed
    /\ shutdownPc = "wait"
    /\ shutdownPc' = "failed"
    /\ UNCHANGED <<registration, locks, services, cleanerPc, counter, nfqueueList,
                   sessions, sessionTable, conntrackIndex, sessionIndex, dict,
                   disp, npackets, returned, released, acctLog>>

\* Shutdown() is called by goroutine c and reaches its send
CallShutdown(c) ==
    /\ ~Crashed
    /\ shutdownCalls[c] = "idle"
    /\ shutdownCalls' = [shutdownCalls EXCEPT ![c] = "send"]
    /\ UNCHANGED <<core, registration, locks, cleaning, thread, stats, shim, tables,
                   inspection, warehouse, tasks, sampling>>

\* "shutdownCleanerTask <- true" of caller c meets the receive of the
\* cleaner's select; c goes on to its own select
SendToCleaner(c) ==
    /\ ~Crashed
    /\ shutdownCalls[c] = "send"
    /\ cleanerPc = "select"
    /\ shutdownCalls' = [shutdownCalls EXCEPT ![c] = "wait"]
    /\ cleanerPc' = AfterSignal
    /\ UNCHANGED <<core, registration, locks, shutdownPc, counter, stats, shim,
                   tables, inspection, warehouse, tasks, sampling, thread>>

\* "shutdownCleanerTask <- true" of caller c meets "case
\* <-shutdownCleanerTask" of caller r, which is in its select: r returns
\* and c goes on to its select
SendToCaller(c, r) ==
    /\ ~Crashed
    /\ c # r
    /\ shutdownCalls[c] = "send"
    /\ shutdownCalls[r] = "wait"
    /\ shutdownCalls' = [shutdownCalls EXCEPT ![c] = "wait", ![r] = "acked"]
    /\ UNCHANGED <<core, registration, locks, cleaning, thread, stats, shim, tables,
                   inspection, warehouse, tasks, sampling>>

\* the cleaner's "shutdownCleanerTask <- true" meets the select of caller
\* c: the cleaner returns and so does c
CleanerAcksCaller(c) ==
    /\ ~Crashed
    /\ cleanerPc = "ack"
    /\ shutdownCalls[c] = "wait"
    /\ cleanerPc' = "done"
    /\ shutdownCalls' = [shutdownCalls EXCEPT ![c] = "acked"]
    /\ UNCHANGED <<core, registration, locks, shutdownPc, counter, stats, shim,
                   tables, inspection, warehouse, tasks, sampling, thread>>

\* the select of caller c: the 10 second timer fires, the failure is
\* logged and c returns
CallTimesOut(c) ==
    /\ ~Crashed
    /\ shutdownCalls[c] = "wait"
    /\ shutdownCalls' = [shutdownCalls EXCEPT ![c] = "failed"]
    /\ UNCHANGED <<core, registration, locks, cleaning, thread, stats, shim, tables,
                   inspection, warehouse, tasks, sampling>>

\* ------------------------------------------------------ registration

\* the priorities plugins register with in a run
InsertPriorities == {0, 1}

\* list[owner] = holder on a Go map
MapInsert(list, owner, holder) ==
    [k \in DOMAIN list \cup {owner} |-> IF k = owner THEN holder ELSE list[k]]

\* InsertNfqueueSubscription of the file that holds nfqueueCallback: the
\* holder is stored in nfqueueList, the registry sessions are created from
InsertNfqueueSubscription(owner, priority) ==
    /\ ~Crashed
    /\ ninserts < MaxInserts
    /\ ninserts' = ninserts + 1
    /\ nfqueueList' = MapInsert(nfqueueList, owner, Holder(owner, priority))
    /\ UNCHANGED <<sessions, sessionTable, conntrackIndex, sessionIndex, dict,
                   disp, npackets, returned, released, acctLog,
                   nfqueueSubList, conntrackSubList, netloggerSubList, fatal,
                   locks, cleaning, services>>

\* InsertNfqueueSubscription up to nfqueueListMutex.Lock(): the holder is
\* built and the mutex taken
InsertLocks(owner, priority) ==
    /\ ~Crashed
    /\ ninserts < MaxInserts
    /\ nfqueueListMutex = ""
    /\ ninserts' = ninserts + 1
    /\ nfqueueListMutex' = owner
    /\ inserting' = Holder(owner, priority)
    /\ UNCHANGED <<core, nfqueueSubList, conntrackSubList, netloggerSubList,
                   fatal, subLocker, taking, attachView, cleaning, services>>

\* nfqueueList[owner] = holder and nfqueueListMutex.Unlock()
InsertStores ==
    /\ ~Crashed
    /\ nfqueueListMutex # ""
    /\ nfqueueList' = MapInsert(nfqueueList, inserting.Owner, inserting)
    /\ nfqueueListMutex' = ""
    /\ inserting' = Holder("", 0)
    /\ UNCHANGED <<sessions, sessionTable, conntrackIndex, sessionIndex, dict,
                   disp, npackets, returned, released, acctLog, registration,
                   subLocker, taking, attachView, cleaning, services>>

\* createSessionEntry up to the "range nfqueueList" of
\* AttachNfqueueSubscriptions: the session's subLocker is taken, a new map
\* made, and the iteration over the registry begins
AttachBegins(w) ==
    LET d == disp[w] IN
    /\ ~Crashed
    /\ d.pc = "create"
    /\ attachView' = [attachView EXCEPT ![w] = nfqueueList]
    /\ disp' = [disp EXCEPT ![w] = [d EXCEPT !.pc = "attach"]]
    /\ UNCHANGED <<nfqueueList, sessions, sessionTable, conntrackIndex,
                   sessionIndex, dict, npackets, returned, released, acctLog,
                   registration, subLocker, taking, nfqueueListMutex,
                   inserting, cleaning, services>>

\* The iteration ends and the session is ready to be inserted. A store into
\* the registry during the iteration is a data race on a Go map: the copy
\* holds the registry as it was when the iteration began or as it is now.
AttachEnds(w) ==
    LET d == disp[w] IN
    /\ ~Crashed
    /\ d.pc = "attach"
    /\ \E seen \in {attachView[w], nfqueueList} :
          sessions' = Append(sessions,
              [NewSessionEntry(sessionIndex, d.ctid, d.pkt)
                  EXCEPT !.subscriptions = seen])
    /\ sessionIndex' = NextSessionIndex(sessionIndex)
    /\ acctLog' = Append(acctLog, <<0, 0>>)
    /\ attachView' = [attachView EXCEPT ![w] = <<>>]
    /\ disp' = [disp EXCEPT ![w] = [d EXCEPT !.session = Len(sessions) + 1,
                                             !.pc = "insert"]]
    /\ UNCHANGED <<nfqueueList, sessionTable, conntrackIndex, dict, npackets,
                   returned, released, registration, subLocker, taking,
                   nfqueueListMutex, inserting, cleaning, services>>

\* the runtime detects the store during the iteration and ends the process:
\* "fatal error: concurrent map iteration and map write"
AttachFaults(w) ==
    /\ ~Crashed
    /\ disp[w].pc = "attach"
    /\ attachView[w] # nfqueueList
    /\ fatal' = TRUE
    /\ UNCHANGED <<core, nfqueueSubList, conntrackSubList, netloggerSubList,
                   ninserts, locks, cleaning, services>>

\* InsertNfqueueSubscription of dispatch.go: the holder is stored in
\* nfqueueSubList, then a holder that was already there makes it panic
InsertNfqueueSubscriptionDispatch(owner, priority) ==
    LET existing == owner \in DOMAIN nfqueueSubList IN
    /\ ~Crashed
    /\ ninserts < MaxInserts
    /\ ninserts' = ninserts + 1
    /\ nfqueueSubList' = MapInsert(nfqueueSubList, owner, Holder(owner, priority))
    /\ fatal' = existing
    /\ UNCHANGED <<nfqueueList, sessions, sessionTable, conntrackIndex,
                   sessionIndex, dict, disp, npackets, returned, released,
                   acctLog, conntrackSubList, netloggerSubList, locks, cleaning, services>>

\* InsertConntrackSubscription: conntrackSubList[owner] = holder
InsertConntrackSubscription(owner, priority) ==
    /\ ~Crashed
    /\ ninserts < MaxInserts
    /\ ninserts' = ninserts + 1
    /\ conntrackSubList' = MapInsert(conntrackSubList, owner, Holder(owner, priority))
    /\ UNCHANGED <<nfqueueList, sessions, sessionTable, conntrackIndex,
                   sessionIndex, dict, disp, npackets, returned, released,
                   acctLog, nfqueueSubList, netloggerSubList, fatal, locks,
                   cleaning, services>>

\* InsertNetloggerSubscription: netloggerSubList[owner] = holder
InsertNetloggerSubscription(owner, priority) ==
    /\ ~Crashed
    /\ ninserts < MaxInserts
    /\ ninserts' = ninserts + 1
    /\ netloggerSubList' = MapInsert(netloggerSubList, owner, Holder(owner, priority))
    /\ UNCHANGED <<nfqueueList, sessions, sessionTable, conntrackIndex,
                   sessionIndex, dict, disp, npackets, returned, released,
                   acctLog, nfqueueSubList, conntrackSubList, fatal, locks,
                   cleaning, services>>

\* ------------------------------------------------ conntrack consumer

\* a NEW or UPDATE conntrack event for ctid confirms the session of that id
ConntrackConfirm(ctid) ==
    LET s == conntrackIndex[ctid] IN
    /\ ~Crashed
    /\ s # Nil
    /\ ~sessions[s].ConntrackConfirmed
    /\ sessions' = [sessions EXCEPT ![s].ConntrackConfirmed = TRUE]
    /\ UNCHANGED <<side, nfqueueList, sessionTable, conntrackIndex, sessionIndex,
                   dict, disp, npackets, returned, released, acctLog>>

\* ------------------------------------------------------ specification

Next ==
    \/ \E w \in Workers, in \in Deliveries :
          Receive(w, in.ctid, in.pkt, in.pmark)
    \/ \E w \in Workers : ProbeReverse(w)
    \/ \E w \in Workers : Bypass(w)
    \/ \E w \in Workers : Collision(w)
    \/ \E w \in Workers : Remove(w)
    \/ \E w \in Workers : Create(w)
    \/ \E w \in Workers : Insert(w)
    \/ \E w \in Workers : AccountRead(w)
    \/ \E w \in Workers : AccountWrite(w)
    \/ \E w \in Workers : Mirror(w)
    \/ \E w \in Workers : HandlerReturns(w)
    \/ \E w \in Workers : HandlerTimesOut(w)
    \/ \E ctid \in CtIds : ConntrackConfirm(ctid)

Spec == Init /\ [][Next]_vars

\* the worker of a shim that runs a single thread
SeqWorker == 1

\* one worker thread: every packet is dispatched after the previous returned
NextSeq ==
    \/ \E in \in DeliveriesSeq :
          Receive(SeqWorker, in.ctid, in.pkt, in.pmark)
    \/ ProbeReverse(SeqWorker)
    \/ Bypass(SeqWorker)
    \/ Collision(SeqWorker)
    \/ Remove(SeqWorker)
    \/ Create(SeqWorker)
    \/ Insert(SeqWorker)
    \/ AccountRead(SeqWorker)
    \/ AccountWrite(SeqWorker)
    \/ Mirror(SeqWorker)
    \/ HandlerReturns(SeqWorker)
    \/ HandlerTimesOut(SeqWorker)
    \/ \E ctid \in CtIds : ConntrackConfirm(ctid)

SpecSeq == Init /\ [][NextSeq]_vars

\* the plugins register, each call of its own goroutine's startup code
NextRegistry ==
    \/ \E o \in Owners, p \in InsertPriorities : InsertNfqueueSubscription(o, p)
    \/ \E o \in Owners, p \in InsertPriorities :
          InsertNfqueueSubscriptionDispatch(o, p)
    \/ \E o \in Owners, p \in InsertPriorities : InsertConntrackSubscription(o, p)
    \/ \E o \in Owners, p \in InsertPriorities : InsertNetloggerSubscription(o, p)

SpecRegistry == Init /\ [][NextRegistry]_vars

\* the first packet of two flows and a later packet of one of them
DeliveriesLocks ==
    { [ctid |-> 100, pkt |-> ClientPacket, pmark |-> NewSessionBit],
      [ctid |-> 100, pkt |-> ClientPacket, pmark |-> 1],
      [ctid |-> 101, pkt |-> OtherPacket, pmark |-> NewSessionBit] }

\* the worker threads with every Lock and Unlock of a subLocker that is not
\* in one step with what it guards
NextLocks ==
    \/ \E w \in Workers, in \in DeliveriesLocks :
          Receive(w, in.ctid, in.pkt, in.pmark)
    \/ \E w \in Workers : ProbeReverse(w)
    \/ \E w \in Workers : Bypass(w)
    \/ \E w \in Workers : Collision(w)
    \/ \E w \in Workers : Remove(w)
    \/ \E w \in Workers : Create(w)
    \/ \E w \in Workers : Insert(w)
    \/ \E w \in Workers : AccountRead(w)
    \/ \E w \in Workers : AccountWrite(w)
    \/ \E w \in Workers : MirrorLocked(w)
    \/ \E w \in Workers : CollectKeep(w)
    \/ \E w \in Workers : HandlerReleases(w)
    \/ \E w \in Workers : GuardReleases(w)
    \/ \E w \in Workers : CollectRelease(w)
    \/ \E ctid \in CtIds : ConntrackConfirm(ctid)

SpecLocks == Init /\ [][NextLocks]_vars

\* the packets of one flow from the client: its first and a later one
DeliveriesInsert == {in \in Deliveries : in.ctid = 100 /\ in.pkt = ClientPacket}

\* one worker thread dispatches a flow while plugins still register
NextInsert ==
    \/ \E in \in DeliveriesInsert :
          Receive(SeqWorker, in.ctid, in.pkt, in.pmark)
    \/ ProbeReverse(SeqWorker)
    \/ Bypass(SeqWorker)
    \/ Collision(SeqWorker)
    \/ Remove(SeqWorker)
    \/ Create(SeqWorker)
    \/ Insert(SeqWorker)
    \/ AccountRead(SeqWorker)
    \/ AccountWrite(SeqWorker)
    \/ Mirror(SeqWorker)
    \/ HandlerReturns(SeqWorker)
    \/ HandlerTimesOut(SeqWorker)
    \/ \E ctid \in CtIds : ConntrackConfirm(ctid)
    \/ \E o \in Owners, p \in InsertPriorities : InsertNfqueueSubscription(o, p)

SpecInsert == Init /\ [][NextInsert]_vars

\* an inspector calls GetConntrackTable and works on what it returned while
\* conntrack events arrive
NextInspect ==
    \/ \E ctid \in CtIds : ConntrackRowAdded(ctid)
    \/ GetConntrackTable
    \/ \E ctid \in CtIds : InspectorDeletes(ctid)
    \/ \E ctid \in CtIds : InspectorWrites(ctid)

SpecInspect == Init /\ [][NextInspect]_vars

\* one worker thread, the goroutines of its fan-out step by step
NextTasks ==
    \/ \E in \in DeliveriesSeq :
          Receive(SeqWorker, in.ctid, in.pkt, in.pmark)
    \/ ProbeReverse(SeqWorker)
    \/ Bypass(SeqWorker)
    \/ Collision(SeqWorker)
    \/ Remove(SeqWorker)
    \/ Create(SeqWorker)
    \/ Insert(SeqWorker)
    \/ AccountRead(SeqWorker)
    \/ AccountWrite(SeqWorker)
    \/ MirrorTasks(SeqWorker)
    \/ \E key \in Owners, call \in 1 .. MaxPackets :
          \E result \in HandlerResults(key) : HandlerFinishes(key, call, result)
    \/ \E key \in Owners : WrapperTakes(SeqWorker, key)
    \/ \E key \in Owners : WrapperTimesOut(SeqWorker, key)
    \/ \E key \in Owners : CollectTask(SeqWorker, key)

SpecTasks == Init /\ [][NextTasks]_vars

\* how many packets the shim delivers in a run that watches the barrier
MaxBarrierPackets == 2

\* the first packet of a flow and a reply to it
DeliveriesBarrier ==
    { [ctid |-> 100, pkt |-> ClientPacket, pmark |-> NewSessionBit],
      [ctid |-> 100, pkt |-> ServerPacket, pmark |-> 1] }

\* one worker thread and the goroutines of its fan-out, for one flow
NextBarrier ==
    \/ \E in \in DeliveriesBarrier :
          ReceiveWithin(SeqWorker, in.ctid, in.pkt, in.pmark, MaxBarrierPackets)
    \/ ProbeReverse(SeqWorker)
    \/ Bypass(SeqWorker)
    \/ Create(SeqWorker)
    \/ Insert(SeqWorker)
    \/ AccountRead(SeqWorker)
    \/ AccountWrite(SeqWorker)
    \/ MirrorTasks(SeqWorker)
    \/ \E key \in Owners, call \in 1 .. MaxBarrierPackets :
          \E result \in HandlerResults(key) : HandlerFinishes(key, call, result)
    \/ \E key \in Owners : WrapperTakes(SeqWorker, key)
    \/ \E key \in Owners : WrapperTimesOut(SeqWorker, key)
    \/ \E key \in Owners : CollectTask(SeqWorker, key)

\* The scheduling the runtime gives: a timer that was started fires, and a
\* send on resultsChannel that the collecting loop is waiting for is
\* completed.
SpecBarrier ==
    /\ Init
    /\ [][NextBarrier]_vars
    /\ \A key \in Owners :
          /\ WF_vars(WrapperTimesOut(SeqWorker, key))
          /\ WF_vars(CollectTask(SeqWorker, key))

\* What the shim hands over when the kernel gives later packets of a flow a
\* conntrack id other than the one its first packet came with.
DeliveriesMismatch ==
    { [ctid |-> 100, pkt |-> ClientPacket, pmark |-> NewSessionBit],
      [ctid |-> 100, pkt |-> ServerPacket, pmark |-> 1],
      [ctid |-> 101, pkt |-> ClientPacket, pmark |-> 1],
      [ctid |-> 101, pkt |-> ServerPacket, pmark |-> 1] }

\* one worker thread, packets whose conntrack id may differ from the session's
NextMismatch ==
    \/ \E in \in DeliveriesMismatch :
          Receive(SeqWorker, in.ctid, in.pkt, in.pmark)
    \/ ProbeReverse(SeqWorker)
    \/ Bypass(SeqWorker)
    \/ Create(SeqWorker)
    \/ Insert(SeqWorker)
    \/ AccountRead(SeqWorker)
    \/ AccountWrite(SeqWorker)
    \/ Mirror(SeqWorker)
    \/ HandlerReturns(SeqWorker)
    \/ HandlerTimesOut(SeqWorker)
    \/ \E ctid \in CtIds : ConntrackConfirm(ctid)

SpecMismatch == Init /\ [][NextMismatch]_vars

\* one worker thread creates sessions while plugins register, the registry
\* accesses of both step by step
NextAttach ==
    \/ \E in \in DeliveriesInsert :
          Receive(SeqWorker, in.ctid, in.pkt, in.pmark)
    \/ ProbeReverse(SeqWorker)
    \/ Bypass(SeqWorker)
    \/ Collision(SeqWorker)
    \/ Remove(SeqWorker)
    \/ AttachBegins(SeqWorker)
    \/ AttachEnds(SeqWorker)
    \/ AttachFaults(SeqWorker)
    \/ Insert(SeqWorker)
    \/ AccountRead(SeqWorker)
    \/ AccountWrite(SeqWorker)
    \/ Mirror(SeqWorker)
    \/ HandlerReturns(SeqWorker)
    \/ HandlerTimesOut(SeqWorker)
    \/ \E o \in Owners, p \in InsertPriorities : InsertLocks(o, p)
    \/ InsertStores

SpecAttach == Init /\ [][NextAttach]_vars

\* the packets one flow is counted with
MaxCountedPackets == 3

\* What the shim hands over for the one flow: its first packet, and later
\* packets of it in either direction.
DeliveriesCounted == {in \in Deliveries : in.ctid = 100}

\* The shim calls nfqueueCallback on any worker thread: the first packet of
\* the flow while nothing of it is known, the later packets once the call for
\* the first packet has returned, two of them at a time on two threads.
ReceiveCounted(w, ctid, pkt, pmark) ==
    /\ IsNewSession(pmark) =>
          /\ Len(sessions) = 0
          /\ \A v \in Workers : disp[v].pc = "idle"
    /\ \A v \in Workers : disp[v].pc = "idle" \/ ~disp[v].newSession
    /\ ReceiveWithin(w, ctid, pkt, pmark, MaxCountedPackets)

\* the worker threads dispatch the packets of one flow
NextCounted ==
    \/ \E w \in Workers, in \in DeliveriesCounted :
          ReceiveCounted(w, in.ctid, in.pkt, in.pmark)
    \/ \E w \in Workers : ProbeReverse(w)
    \/ \E w \in Workers : Bypass(w)
    \/ \E w \in Workers : Create(w)
    \/ \E w \in Workers : Insert(w)
    \/ \E w \in Workers : AccountRead(w)
    \/ \E w \in Workers : AccountWrite(w)
    \/ \E w \in Workers : Mirror(w)
    \/ \E w \in Workers : HandlerReturns(w)
    \/ \E w \in Workers : HandlerTimesOut(w)

SpecCounted == Init /\ [][NextCounted]_vars

\* What the shim hands over when the first packet of a flow arrives twice:
\* new-flow packets of the one tuple.
DeliveriesRace ==
    {in \in Deliveries : in.pkt = ClientPacket /\ IsNewSession(in.pmark)}

\* The shim calls nfqueueCallback with a new-flow packet while the table has
\* no session for its tuple, on any worker thread that is free.
ReceiveRace(w, ctid, pkt, pmark) ==
    /\ findSessionEntry(TupleString(MsgTuple(pkt))) = Nil
    /\ findSessionEntry(TupleStringReverse(MsgTuple(pkt))) = Nil
    /\ Receive(w, ctid, pkt, pmark)

\* the worker threads dispatch first packets of one tuple
NextRace ==
    \/ \E w \in Workers, in \in DeliveriesRace :
          ReceiveRace(w, in.ctid, in.pkt, in.pmark)
    \/ \E w \in Workers : ProbeReverse(w)
    \/ \E w \in Workers : Create(w)
    \/ \E w \in Workers : Insert(w)
    \/ \E w \in Workers : AccountRead(w)
    \/ \E w \in Workers : AccountWrite(w)
    \/ \E w \in Workers : Mirror(w)
    \/ \E w \in Workers : HandlerReturns(w)
    \/ \E w \in Workers : HandlerTimesOut(w)

SpecRace == Init /\ [][NextRace]_vars

\* the stats plugin samples an interface counter
NextCounters == \E current \in U64Samples : calculateDifference(current)

SpecCounters == Init /\ [][NextCounters]_vars

\* the stats plugin logs the hop count of packets of every TTL
NextHops ==
    \E ctid \in CtIds, layer \in {"IPv4", "IPv6", "none"}, ttl \in 0 .. 255,
       name \in HopNames : logHopCount(ctid, layer, ttl, name)

SpecHops == Init /\ [][NextHops]_vars

\* a capture is played back and cleaned up while conntrack events arrive
NextWarehouse ==
    \/ HandleWarehousePlayback
    \/ PlaybackLocks
    \/ \E c \in Capture : PlaybackFlow(c.ctid, c.pkt)
    \/ PlaybackUnlocks
    \/ HandleWarehouseCleanup
    \/ \E ctid \in CtIds : ConntrackRowAdded(ctid)

SpecWarehouse == Init /\ [][NextWarehouse]_vars

\* the conntrack thread receives events while the daemon may shut down
NextShim ==
    \/ \E type \in EventTypes,
          proto \in {IPPROTO_TCP, IPPROTO_UDP, IPPROTO_ICMP},
          saddr \in ShimAddresses, daddr \in ShimAddresses :
          conntrack_callback(type, proto, saddr, daddr)
    \/ ConntrackFilter
    \/ conntrack_goodbye

SpecShim == Init /\ [][NextShim]_vars

\* how many packets of a flow the stats plugin is followed for
MaxStatsPackets == 3

\* the packets of one flow in both directions
DeliveriesStats ==
    { [ctid |-> 100, pkt |-> ClientPacket, pmark |-> NewSessionBit],
      [ctid |-> 100, pkt |-> ClientPacket, pmark |-> 1],
      [ctid |-> 100, pkt |-> ServerPacket, pmark |-> 1],
      [ctid |-> 100, pkt |-> OtherPacket, pmark |-> 1] }

\* stats is the only plugin
InitStats ==
    /\ nfqueueList \in StatsRegistries
    /\ InitRest

\* one worker thread dispatches a flow to the stats plugin
NextStats ==
    \/ \E in \in DeliveriesStats :
          ReceiveWithin(SeqWorker, in.ctid, in.pkt, in.pmark, MaxStatsPackets)
    \/ ProbeReverse(SeqWorker)
    \/ Bypass(SeqWorker)
    \/ Collision(SeqWorker)
    \/ Remove(SeqWorker)
    \/ Create(SeqWorker)
    \/ Insert(SeqWorker)
    \/ AccountRead(SeqWorker)
    \/ AccountWrite(SeqWorker)
    \/ Mirror(SeqWorker)
    \/ StatsReturns(SeqWorker)
    \/ StatsGuardFires(SeqWorker)
    \/ \E ctid \in CtIds : ConntrackConfirm(ctid)

SpecStats == InitStats /\ [][NextStats]_vars

\* one worker thread dispatches a flow while the cleaner task runs and
\* Shutdown is called
NextShutdown ==
    \/ \E in \in DeliveriesInsert :
          Receive(SeqWorker, in.ctid, in.pkt, in.pmark)
    \/ ProbeReverse(SeqWorker)
    \/ Bypass(SeqWorker)
    \/ Collision(SeqWorker)
    \/ Remove(SeqWorker)
    \/ Create(SeqWorker)
    \/ Insert(SeqWorker)
    \/ AccountRead(SeqWorker)
    \/ AccountWrite(SeqWorker)
    \/ Mirror(SeqWorker)
    \/ HandlerReturns(SeqWorker)
    \/ HandlerTimesOut(SeqWorker)
    \/ \E ctid \in CtIds : ConntrackConfirm(ctid)
    \/ CleanerWakes
    \/ CleanSessionTable
    \/ CleanConntrackTable
    \/ ShutdownCalled
    \/ ShutdownSignal
    \/ CleanerAcks
    \/ ShutdownTimesOut

\* a sweep ends, a receive that is ready to be taken is taken, and one of
\* the two cases of Shutdown's select is taken
SpecShutdown ==
    /\ Init
    /\ [][NextShutdown]_vars
    /\ WF_vars(CleanSessionTable)
    /\ WF_vars(CleanConntrackTable)
    /\ SF_vars(ShutdownSignal)
    /\ WF_vars(CleanerAcks \/ ShutdownTimesOut)

\* conntrack_thread runs from its start while the daemon may shut down
NextThread ==
    \/ \E opened, registered \in BOOLEAN : conntrack_startup(opened, registered)
    \/ StartupChecked
    \/ LoopTest
    \/ nfct_catch
    \/ conntrack_shutdown
    \/ ThreadReturns
    \/ conntrack_goodbye

SpecThread == Init /\ [][NextThread]_vars

\* the cleaner task runs and Shutdown is called by two goroutines
NextCallers ==
    \/ CleanerWakes
    \/ CleanSessionTable
    \/ CleanConntrackTable
    \/ \E c \in Callers : CallShutdown(c)
    \/ \E c \in Callers : SendToCleaner(c)
    \/ \E c, r \in Callers : SendToCaller(c, r)
    \/ \E c \in Callers : CleanerAcksCaller(c)
    \/ \E c \in Callers : CallTimesOut(c)

\* a sweep ends; a send on shutdownCleanerTask that has a receiver ready is
\* taken; a select with a ready case takes one
SpecCallers ==
    /\ Init
    /\ [][NextCallers]_vars
    /\ WF_vars(CleanSessionTable)
    /\ WF_vars(CleanConntrackTable)
    /\ \A c \in Callers :
          /\ SF_vars(SendToCleaner(c) \/ \E r \in Callers : SendToCaller(c, r))
          /\ WF_vars(CleanerAcksCaller(c) \/ CallTimesOut(c)
                       \/ \E r \in Callers : SendToCaller(r, c))

\* ------------------------------------------------------------ properties

\* whether some worker's call returns from callSubscribers in this step
FanoutReturns(w) ==
    /\ disp[w].pc \in {"mirror", "collect"}
    /\ disp'[w].pc = "idle"

\* the priority a snapshot holds for handler k
PriorityOf(d, k) == d.sublist[k].Priority

\* the handlers of worker w's call whose task has been started
Invoked(d) == d.pending \cup d.collected

\* the handlers whose task starts in this step of worker w
InvokedNow(w) == disp'[w].pending \ disp[w].pending

\* C1: a call that reached the fan-out and returned gives back the input
\* mark OR-ed with the PacketMark of the real result of every handler of its
\* snapshot, every handler of the snapshot having been collected (a timed-out
\* one adds nothing); with an empty snapshot the mark is the input mark.
C1_MarkIsOrOfResults ==
    returned.via = "fanout" =>
        /\ returned.collected = returned.sublist
        /\ returned.pmark = BitOr(returned.inMark, returned.merged)
        /\ returned.sublist = {} => returned.pmark = returned.inMark

C1_Witness ==
    /\ returned.via = "fanout"
    /\ returned.sublist = {"A", "B"}
    /\ returned.timedOut = {}
    /\ returned.inMark = NewSessionBit
    /\ returned.pmark = NewSessionBit + 3

\* C2: within one call, when a handler has been invoked, every handler of
\* the snapshot with a lower priority has had its result collected.
C2_LayersInOrder ==
    \A w \in Workers :
        \A high \in Invoked(disp[w]) : \A low \in DOMAIN disp[w].sublist :
            PriorityOf(disp[w], low) < PriorityOf(disp[w], high)
                => low \in disp[w].collected

C2_Witness ==
    \E w \in Workers :
        \E high \in disp[w].pending : \E low \in disp[w].collected :
            PriorityOf(disp[w], low) < PriorityOf(disp[w], high)

\* the owners for which ReleaseSession on session s has returned
ReleasedOn(s) == {o \in Owners : <<s, o>> \in released}

\* C3, as claimed: once ReleaseSession(s, o) has returned, no call on s
\* starts o's handler, not even a call that took its snapshot of s before
\* the release.
C3_NoInvokeAfterRelease ==
    [][\A w \in Workers :
          InvokedNow(w) \cap ReleasedOn(disp'[w].session) = {}]_vars

\* C3, amended: a call that takes its snapshot of s after ReleaseSession(s, o)
\* has returned does not have o in the snapshot, the snapshot stays as taken
\* while the call collects, and only handlers of the snapshot are started.
C3_NoInvokeAfterReleaseBySnapshot ==
    [][\A w \in Workers :
          /\ disp[w].pc = "mirror" /\ disp'[w].pc # "mirror" =>
                /\ DOMAIN disp'[w].sublist \cap ReleasedOn(disp[w].session) = {}
                /\ FanoutReturns(w) =>
                      returned'.sublist \cap ReleasedOn(disp[w].session) = {}
          /\ disp[w].pc = "collect" /\ disp'[w].pc = "collect" =>
                disp'[w].sublist = disp[w].sublist
          /\ InvokedNow(w) \subseteq DOMAIN disp'[w].sublist]_vars

C3_Witness ==
    \E w \in Workers :
        /\ disp[w].pc = "collect"
        /\ disp[w].pending # {}
        /\ ReleasedOn(disp[w].session) # {}
        /\ DOMAIN disp[w].sublist \cap ReleasedOn(disp[w].session) = {}

\* C4, as claimed: when a call returns from the fan-out on a session whose
\* subscriptions are empty at that point, the dict holds bypass_packetd = true
\* for the session's conntrack id.
C4_EmptyMeansBypass ==
    [][\A w \in Workers :
          FanoutReturns(w)
          /\ DOMAIN sessions'[disp[w].session].subscriptions = {}
          => <<sessions'[disp[w].session].ConntrackID, "bypass_packetd", TRUE>>
                \in dict']_vars

\* C5: every call that has returned carries the verdict NfAccept.
C5_AlwaysAccept ==
    returned.via # "none" => returned.verdict = NfAccept

C5_Witness ==
    /\ returned.via = "fanout"
    /\ returned.timedOut # {}
    /\ returned.verdict = NfAccept

\* C6, as claimed: when the guard of a handler fires, the call still returns
\* NfAccept (it does not panic), the timed-out handler adds no mark bits, and
\* its owner leaves the session's subscriptions.
C6_TimeoutStillAccepts ==
    /\ \A w \in Workers :
          disp[w].timedOut # {} =>
              /\ disp[w].pc # "panic"
              /\ disp[w].pmark = BitOr(disp[w].inMark, disp[w].merged)
              /\ disp[w].timedOut \cap
                    DOMAIN sessions[disp[w].session].subscriptions = {}
    /\ returned.timedOut # {} =>
          /\ returned.verdict = NfAccept
          /\ returned.pmark = BitOr(returned.inMark, returned.merged)

\* C7, as claimed: a call whose snapshot holds only priorities of 0..100
\* never reaches the "Priority > 100" panic.
C7_NoPanicInRange ==
    \A w \in Workers :
        (\A k \in DOMAIN disp[w].sublist :
            PriorityOf(disp[w], k) \in 0 .. MaxPriority)
        => disp[w].pc # "panic"

\* C8, as claimed: when the dispatch of the packet that created a session has
\* returned, and no other packet was received, the session has PacketCount 1,
\* EventCount 1 and ByteCount equal to the packet's length.
C8_CountersAfterFirstPacket ==
    npackets = 1 /\ returned.via = "fanout" =>
        /\ acctLog[returned.session] = <<1, returned.pkt.length>>
        /\ sessions[returned.session].PacketCount = 1
        /\ sessions[returned.session].EventCount = 1
        /\ sessions[returned.session].ByteCount = returned.pkt.length

\* whether bit 0x10000000 is clear in a mark
NewBitClear(mark) == (mark \div NewSessionBit) % 2 = 0

\* C9: a packet without the new-flow bit that finds no session by the forward
\* or the reverse tuple goes to the bypass return and nowhere else; that
\* return sets dict (ctid, "bypass_packetd") = true, gives back NfAccept and
\* the input mark, creates no session and starts no handler.
C9_MidFlowMissBypasses ==
    [][\A w \in Workers :
          /\ /\ disp[w].pc = "reverse"
             /\ NewBitClear(disp[w].inMark)
             /\ sessionTable[TupleStringReverse(MsgTuple(disp[w].pkt))] = Nil
             => disp'[w].pc \in {"reverse", "bypass"} /\ disp'[w].session = Nil
          /\ disp[w].pc = "bypass" /\ disp'[w].pc # "bypass" =>
                /\ disp'[w] = IdleWorker
                /\ returned'.via = "bypass"
                /\ returned'.verdict = NfAccept
                /\ returned'.pmark = disp[w].inMark
                /\ <<disp[w].ctid, "bypass_packetd", TRUE>> \in dict'
                /\ UNCHANGED <<sessions, sessionTable, conntrackIndex>>
          /\ disp'[w].pc = "bypass" => NewBitClear(disp'[w].inMark)]_vars

C9_Witness ==
    /\ returned.via = "bypass"
    /\ returned.pmark = 1
    /\ sessions = <<>>
    /\ dict = {<<returned.ctid, "bypass_packetd", TRUE>>}

\* C10: a packet with neither an IPv4 nor an IPv6 layer never gets past the
\* layer test; its call returns at once with NfAccept and the input mark,
\* and leaves the session table, the sessions and the dict as they were.
C10_NonIPUntouched ==
    [][npackets' = npackets + 1 =>
          /\ \A w \in Workers :
                disp'[w] # disp[w] => disp'[w].pkt.l3 \in {"IPv4", "IPv6"}
          /\ disp' = disp =>
                /\ returned'.pkt.l3 \notin {"IPv4", "IPv6"}
                /\ returned'.via = "noip"
                /\ returned'.verdict = NfAccept
                /\ returned'.pmark = returned'.inMark
                /\ UNCHANGED <<sessions, sessionTable, conntrackIndex, dict>>]_vars

C10_Witness ==
    /\ returned.via = "noip"
    /\ returned.pkt = ArpPacket
    /\ returned.pmark = 1
    /\ sessions # <<>>

\* the keys under which the flow of worker w's packet can be found
FlowKeys(d) ==
    {TupleString(MsgTuple(d.pkt)), TupleStringReverse(MsgTuple(d.pkt))}

\* the sessions the table holds under the keys of a flow
FlowSessions(table, d) == {table[k] : k \in FlowKeys(d)} \ {Nil}

C12_ConfirmedCollisionKeeps ==
    [][\A w \in Workers :
          /\ /\ disp[w].pc = "collision"
             /\ sessions[disp[w].session].ConntrackConfirmed
             /\ disp'[w] # disp[w]
             => /\ disp'[w].pc = "account"
                /\ disp'[w].session = disp[w].session
                /\ UNCHANGED <<sessions, sessionTable, conntrackIndex,
                               sessionIndex>>
          /\ disp[w].pc = "account" =>
                /\ disp'[w].pc \in {"account", "accountw"}
                /\ disp'[w].session = disp[w].session
          /\ disp[w].pc = "accountw" =>
                /\ disp'[w].pc \in {"accountw", "mirror"}
                /\ disp'[w].session = disp[w].session
          /\ disp[w].pc = "mirror" /\ disp'[w].pc # "idle" =>
                disp'[w].session = disp[w].session]_vars

C12_Witness ==
    \E w \in Workers :
        /\ disp[w].pc = "mirror"
        /\ disp[w].newSession
        /\ disp[w].session = 1
        /\ sessions[1].ConntrackConfirmed
        /\ Len(sessions) = 1
        /\ returned.via = "fanout"
        /\ returned.session = 1

\* C13: session ids are strictly increasing in creation order, so no two
\* sessions share one, also when concurrent calls create sessions.
C13_SessionIdsIncrease ==
    \A i, j \in DOMAIN sessions :
        i < j => sessions[i].SessionID < sessions[j].SessionID

C13_Witness ==
    /\ Len(sessions) = 2
    /\ \A w \in Workers : disp[w].pc = "insert"
    /\ sessions[1].SessionID < sessions[2].SessionID

\* the sessions the session table holds
TableSessions == {sessionTable[k] : k \in TableKeys} \ {Nil}

C15_SubscriptionsOnlyShrink ==
    [][\A s \in DOMAIN sessions' :
          IF s \in DOMAIN sessions
          THEN \A o \in DOMAIN sessions'[s].subscriptions :
                  /\ o \in DOMAIN sessions[s].subscriptions
                  /\ sessions'[s].subscriptions[o] = sessions[s].subscriptions[o]
          ELSE sessions'[s].subscriptions = nfqueueList]_vars

C15_Witness ==
    \E s \in DOMAIN sessions :
        \E o \in DOMAIN nfqueueList \ DOMAIN sessions[s].subscriptions :
            /\ <<s, o>> \notin released
            /\ ninserts > 0
            /\ returned.session = s
            /\ npackets = 2

\* the holder registered for owner in list is a different one after the step
HolderReplaced(list, listAfter, owner) ==
    /\ owner \in DOMAIN list
    /\ owner \in DOMAIN listAfter
    /\ listAfter[owner] # list[owner]

\* C16: an nfqueue registration for an owner that is already registered is
\* fatal: the holder of a registered owner is never replaced by a step that
\* lets the process carry on.
C16_DuplicateNfqueueIsFatal ==
    [][\A o \in Owners :
          \/ HolderReplaced(nfqueueList, nfqueueList', o)
          \/ HolderReplaced(nfqueueSubList, nfqueueSubList', o)
          => fatal']_vars

\* C17: a conntrack or netlogger registration for an owner that is already
\* registered is fatal: the holder of a registered owner is never replaced
\* by a step that lets the process carry on.
C17_DuplicateEventIsFatal ==
    [][\A o \in Owners :
          \/ HolderReplaced(conntrackSubList, conntrackSubList', o)
          \/ HolderReplaced(netloggerSubList, netloggerSubList', o)
          => fatal']_vars

\* the call that returns in this step was given the packet, conntrack id and
\* mark of the call that returned before it, and no guard fired in either
Replayed ==
    /\ returned' # returned
    /\ returned.via # "none"
    /\ returned'.ctid = returned.ctid
    /\ returned'.pkt = returned.pkt
    /\ returned'.inMark = returned.inMark
    /\ returned.timedOut = {}
    /\ returned'.timedOut = {}

C19_NoLockWhileHandlersRun ==
    \A w \in Workers : disp[w].pending # {} => subLocker[w] = Nil

\* C19: a dispatching task holds a subLocker only inside ReleaseSession, and
\* then the one of its own session; where it waits for a handler it holds
\* none, so that a dispatch is never kept from its snapshot by a task on a
\* different session, whatever that task's handlers do, and the task inside
\* ReleaseSession can always finish it.
C19_LocksNeverWaitOnHandlers ==
    \A w \in Workers :
        /\ subLocker[w] # Nil =>
              /\ disp[w].pc = "release"
              /\ subLocker[w] = SubLockerOf(disp[w].session)
        /\ disp[w].pc = "collect" => subLocker[w] = Nil
        /\ disp[w].pc = "release" /\ ~Crashed => ENABLED CollectRelease(w)
        /\ /\ disp[w].pc = "mirror"
           /\ ~Crashed
           /\ \A v \in Workers \ {w} : disp[v].session # disp[w].session
           => ENABLED MirrorLocked(w)

\* a handler of the dispatch on session 1 is still executing while the
\* dispatch on session 2 is inside ReleaseSession, one of its own handlers
\* still executing as well
C19_Witness ==
    \E w, v \in Workers :
        /\ disp[w].pc = "collect"
        /\ disp[w].pending # {}
        /\ disp[w].session = 1
        /\ disp[v].pc = "release"
        /\ disp[v].session = 2
        /\ disp[v].pending # {}
        /\ subLocker[v] = SubLockerOf(2)

\* C20 as stated: once Shutdown has returned, by the acknowledgement or by
\* its timeout, the cleaner has terminated and no task is blocked on
\* shutdownCleanerTask.
C20_NoTaskLeftBlocked ==
    shutdownPc \in {"acked", "failed"} => cleanerPc = "done"

\* C20: a Shutdown that has reached its send returns (unless a panic ends
\* the process first); as soon as the cleaner has received the signal it is
\* at its acknowledging send and runs no sweep any more; a Shutdown that
\* received the acknowledgement leaves a terminated cleaner, a Shutdown that
\* timed out leaves the cleaner blocked at its send.
C20_ShutdownStopsCleaner ==
    /\ [](shutdownPc = "wait" => cleanerPc = "ack")
    /\ [](shutdownPc = "acked" => cleanerPc = "done")
    /\ [](shutdownPc = "failed" => cleanerPc = "ack")
    /\ [][(cleanerPc \in {"ack", "done"}) =>
             (counter' = counter /\ cleanerPc' \in {"ack", "done"})]_vars
    /\ (shutdownPc = "send") ~> (shutdownPc \in {"acked", "failed"} \/ Crashed)

\* Shutdown was called after the cleaner had swept, and got its
\* acknowledgement
C20_Witness ==
    /\ counter > 0
    /\ shutdownPc = "acked"
    /\ cleanerPc = "done"

\* the packet of the latest dispatch came from the server of its session
ReturnedFromServer ==
    /\ returned.via = "fanout"
    /\ MsgTuple(returned.pkt) # sessions[returned.session].ClientSideTuple

\* C21: when a dispatch has returned in which the stats handler itself
\* returned sessionRelease = true, stats is no longer subscribed to the
\* session of that dispatch.
C21_StatsReleaseRemovesStats ==
    /\ ReturnedFromServer
    /\ StatsName \in returned.collected \ returned.timedOut
    => StatsName \notin DOMAIN sessions[returned.session].subscriptions

\* the event go_conntrack_callback was called with is of a type, a protocol
\* and between addresses the shim passes on
DeliveredPassesFilter ==
    /\ delivered.msg_type \in {"N", "U", "D"}
    /\ delivered.orig_proto \in {IPPROTO_TCP, IPPROTO_UDP}
    /\ delivered.orig_saddr % 256 # 127
    /\ delivered.orig_daddr % 256 # 127

\* C22 as stated: go_conntrack_callback is called only with NEW, UPDATE and
\* DESTROY events of TCP or UDP between addresses whose low byte is not
\* 0x7F, and only while g_shutdown is 0.
C22_DeliveredOnlyWhileRunning ==
    delivered # NoDelivery => DeliveredPassesFilter /\ delivered.shutdown = 0

\* C22: go_conntrack_callback is called only with NEW, UPDATE and DESTROY
\* events of TCP or UDP between addresses whose low byte is not 0x7F; a
\* callback entered once g_shutdown is set stops the thread and delivers
\* nothing, and after that no event is delivered any more.
C22_DeliveredOnlyFiltered ==
    /\ [](delivered # NoDelivery => DeliveredPassesFilter)
    /\ [](shimPc = "terminated" => g_shutdown # 0 /\ shimEvent = NoEvent)
    /\ [][(g_shutdown # 0 /\ shimPc \in {"catch", "terminated"}) =>
             (delivered' = delivered /\ shimPc' \in {"catch", "terminated"})]_vars

\* an event was delivered while the flag was clear, and the callback entered
\* after the flag was set stopped the thread
C22_Witness ==
    /\ delivered # NoDelivery
    /\ delivered.shutdown = 0
    /\ shimPc = "terminated"
    /\ nevents = MaxEvents

\* C23: whatever the caller of GetConntrackTable changes in the map it was
\* given or in the entries of that map, the internal conntrack table and its
\* entries stay as they are.
C23_CopyIsolatesTable ==
    [][ninspect' # ninspect => UNCHANGED <<conntrackTable, conntrackRows>>]_vars

\* C24: once HandleWarehouseCleanup, called after HandleWarehousePlayback,
\* has returned and the playback has ended, no session and no conntrack
\* entry of the capture is in the tables and both lists are nil.
C24_CleanupRemovesPlayback ==
    ncleanups > 0 /\ playbackPc = "done" =>
        /\ nfCleanupList = NilList
        /\ ctCleanupList = NilList
        /\ \A c \in Capture :
              conntrackIndex[c.ctid] = Nil /\ conntrackTable[c.ctid] = Nil

\* the guarded task that started handler task t has left its select by the
\* timer, or has ended
AbandonedTask(t) ==
    \/ wrappers[t.w][t.key].call # t.call
    \/ wrappers[t.w][t.key].pc # "select"

\* a handler returns in this step after its guard fired
LateReturn ==
    \E t \in handlerTasks :
        AbandonedTask(t) /\ t.pc = "running" /\ t \notin handlerTasks'

\* C25: the result a handler returns after its guard fired is discarded. Its
\* task's send on c completes (no handler task is ever parked on a send); the
\* step changes no mark, no subscription, no dict entry and nothing the
\* collecting loop or a guarded task holds; the result stays in c, no one
\* receives it; and a call all of whose handlers timed out returns the mark
\* it was given.
C25_LateResultDiscarded ==
    /\ [](\A t \in handlerTasks : t.pc # "blocked")
    /\ [][LateReturn => UNCHANGED <<core, wrappers>>]_vars
    /\ [][\A t \in handlerTasks :
            (AbandonedTask(t) /\ t.pc = "exited") => t \in handlerTasks']_vars
    /\ [](returned.via = "fanout" /\ returned.timedOut = returned.sublist
            => returned.pmark = returned.inMark)

\* a handler whose guard fired has returned a result that sets a mark bit,
\* and a later call has gone through the fan-out and returned
C25_Witness ==
    /\ \E t \in handlerTasks :
          /\ t.pc = "exited"
          /\ t.c # <<>>
          /\ Head(t.c).PacketMark # 0
          /\ t.call < npackets
    /\ disp[SeqWorker].pc = "idle"
    /\ returned.via = "fanout"
    /\ returned.sublist # {}
    /\ returned.timedOut = {}

\* the tuple of packet pkt is the client-side tuple of session s
SameDirection(pkt, s) ==
    LET t == MsgTuple(pkt)
        u == sessions[s].ClientSideTuple
    IN  /\ t.Protocol = u.Protocol
        /\ t.ClientAddress = u.ClientAddress /\ t.ClientPort = u.ClientPort
        /\ t.ServerAddress = u.ServerAddress /\ t.ServerPort = u.ServerPort

\* the tuple of packet pkt is the client-side tuple of session s with client
\* and server swapped
MirrorsSession(pkt, s) ==
    LET t == MsgTuple(pkt)
        u == sessions[s].ClientSideTuple
    IN  /\ t.Protocol = u.Protocol
        /\ t.ClientAddress = u.ServerAddress /\ t.ClientPort = u.ServerPort
        /\ t.ServerAddress = u.ClientAddress /\ t.ServerPort = u.ClientPort

\* C26: the lookup probes the forward tuple first and answers (session, true)
\* on a hit; only on a forward miss it probes the reverse tuple and answers
\* (session, false) on a hit and (nil, true) on a miss; a reply packet (one
\* without the new-flow bit) whose tuple is the reverse of a session in the
\* table goes on with that session, and its call creates no session.
C26_ForwardThenReverse ==
    [][LET d == disp[SeqWorker]
           e == disp'[SeqWorker]
       IN  /\ (d.pc = "idle" /\ e.pc # "idle") =>
                IF \E s \in TableSessions : SameDirection(e.pkt, s)
                THEN /\ e.pc # "reverse"
                     /\ e.session \in TableSessions
                     /\ SameDirection(e.pkt, e.session)
                     /\ e.ClientToServer
                ELSE e.pc = "reverse"
           /\ (d.pc = "reverse" /\ e.pc # "reverse") =>
                IF \E s \in TableSessions : MirrorsSession(d.pkt, s)
                THEN /\ e.session \in TableSessions
                     /\ MirrorsSession(d.pkt, e.session)
                     /\ ~e.ClientToServer
                     /\ NewBitClear(d.inMark) => e.pc = "account"
                ELSE e.session = Nil /\ e.ClientToServer
           /\ (d.pc # "idle" /\ d.session # Nil /\ ~d.ClientToServer
                 /\ NewBitClear(d.inMark)) =>
                /\ Len(sessions') = Len(sessions)
                /\ UNCHANGED <<sessionTable, conntrackIndex>>]_vars

\* a reply packet has found, by the reverse tuple, the one session the first
\* packet of its flow created
C26_Witness ==
    /\ disp[SeqWorker].pc = "account"
    /\ disp[SeqWorker].pkt = ServerPacket
    /\ disp[SeqWorker].inMark = 1
    /\ ~disp[SeqWorker].ClientToServer
    /\ disp[SeqWorker].session = 1
    /\ sessions[1].ClientSideTuple = MsgTuple(ClientPacket)
    /\ Len(sessions) = 1

\* C27: in a call that returns from the fan-out, a handler is started only
\* if the snapshot holds it, no handler is started a second time, and at the
\* return every handler of the snapshot has been started and collected; a
\* handler of the snapshot whose release has been recorded in the session
\* meanwhile is started all the same: while the call collects, the handlers
\* started are those of the snapshot up to the current priority.
C27_SnapshotInvokedOnce ==
    /\ [](\A w \in Workers : disp[w].pc = "collect" =>
            Invoked(disp[w]) =
                {k \in DOMAIN disp[w].sublist :
                    PriorityOf(disp[w], k) <= disp[w].priority})
    /\ [][\A w \in Workers :
          /\ InvokedNow(w) \subseteq DOMAIN disp'[w].sublist
          /\ disp[w].pc = "collect" => InvokedNow(w) \cap Invoked(disp[w]) = {}
          /\ disp[w].pc = "collect" /\ disp'[w].pc = "collect" =>
                /\ disp'[w].sublist = disp[w].sublist
                /\ Invoked(disp[w]) \subseteq Invoked(disp'[w])
          /\ FanoutReturns(w) =>
                /\ returned'.collected = returned'.sublist
                /\ disp[w].pc = "collect" =>
                      returned'.sublist = DOMAIN disp[w].sublist
                /\ disp[w].pc = "mirror" =>
                      returned'.sublist =
                          DOMAIN MirrorNfqueueSubscriptions(disp[w].session)]_vars

\* a handler of the second layer is running for a call whose snapshot holds
\* it, while the session has its release on record from another call
C27_Witness ==
    \E w \in Workers :
        /\ disp[w].pc = "collect"
        /\ DOMAIN disp[w].sublist = {"A", "B"}
        /\ PriorityOf(disp[w], "B") = 1
        /\ disp[w].pending = {"B"}
        /\ "B" \notin DOMAIN sessions[disp[w].session].subscriptions
        /\ <<disp[w].session, "B">> \in released

\* the handlers of worker w's call whose guarded task has not delivered yet
Waiting(w) == {k \in Owners : wrappers[w][k].pc \in {"select", "send"}}

\* C28: the barrier of a layer does not deadlock. While the call collects,
\* the results it still waits for are those of the guarded tasks that are
\* running, one each; a guarded task ends with the one send that is
\* received, and none is left once the call has gone on past the fan-out;
\* and a call that collects always gets past the barrier.
C28_BarrierNeverDeadlocks ==
    /\ [](disp[SeqWorker].pc = "collect" =>
            /\ Waiting(SeqWorker) = disp[SeqWorker].pending
            /\ disp[SeqWorker].pending # {})
    /\ [](disp[SeqWorker].pc # "collect" => Waiting(SeqWorker) = {})
    /\ [][\A k \in Owners :
            wrappers[SeqWorker][k].pc = "send" /\ wrappers'[SeqWorker][k].pc # "send"
            => /\ k \in disp[SeqWorker].pending
               /\ \/ disp'[SeqWorker].pc # "collect"
                  \/ disp'[SeqWorker].collected = disp[SeqWorker].collected \cup {k}
               /\ wrappers'[SeqWorker][k].pc = "none"]_vars
    /\ [](disp[SeqWorker].pc = "collect" =>
            <>(disp[SeqWorker].pc \in {"idle", "panic"}))

\* a call has returned from a fan-out of two layers in which one guarded
\* task delivered its handler's result and the other the guard's
C28_Witness ==
    /\ returned.via = "fanout"
    /\ returned.sublist = {"A", "B"}
    /\ returned.timedOut = {"B"}
    /\ disp[SeqWorker].pc = "idle"
    /\ Waiting(SeqWorker) = {}
    /\ \E t \in handlerTasks : t.key = "B" /\ t.pc = "running"

\* the dict entry ReleaseSession writes for session s
BypassFlag(s) == <<sessions[s].ConntrackID, "bypass_packetd", TRUE>>

\* C29: a step of the collecting loop, the only caller of ReleaseSession,
\* writes (ConntrackID, "bypass_packetd", true) when it takes the session's
\* subscription map from non-empty to empty, and then writes nothing else; in
\* every other case (no release, a map already empty, an owner the map does
\* not hold) it leaves the dict alone, and when the map is as it was it
\* leaves the session alone too; a map that is empty stays empty, so the
\* flag is written by a release at most once per session.
C29_BypassOnLastRelease ==
    [][/\ \A w \in Workers :
            (disp[w].pc = "collect" /\ disp'[w] # disp[w]) =>
              LET s == disp[w].session
                  before == DOMAIN sessions[s].subscriptions
                  after == DOMAIN sessions'[s].subscriptions
              IN  /\ (before # {} /\ after = {}) =>
                        dict' = dict \cup {BypassFlag(s)}
                  /\ ~(before # {} /\ after = {}) => dict' = dict
                  /\ after = before => UNCHANGED <<sessions, dict>>
       /\ \A s \in 1 .. Len(sessions) :
            DOMAIN sessions[s].subscriptions = {} =>
                DOMAIN sessions'[s].subscriptions = {}]_vars

\* both handlers of a session have been released, one after the other, and
\* the flag is in the dict; a later call on the session has returned
C29_Witness ==
    /\ returned.via = "fanout"
    /\ returned.sublist = {}
    /\ returned.session # Nil
    /\ {<<returned.session, "A">>, <<returned.session, "B">>} \subseteq released
    /\ DOMAIN sessions[returned.session].subscriptions = {}
    /\ BypassFlag(returned.session) \in dict

\* C30: the stats handler is not started for a packet of a session once a
\* dispatch in which it answered a server-to-client packet of that session
\* with sessionRelease = true has returned.
C30_StatsStopsAfterReply ==
    \A w \in Workers :
        disp[w].pc = "collect" /\ StatsName \in disp[w].pending
        => disp[w].session \notin statsAsked

\* the most common initial TTL values
InitialTTLs == {32, 64, 128, 255}

\* C31: for every TTL or hop limit t in 0..255 logHopCount records b - t,
\* b the smallest of 32, 64, 128, 255 that is at least t; the difference is
\* taken without underflow and lies in 0..126; it is written to the dict
\* under the ctid and the name given.
C31_HopCountFromNearestBase ==
    hopCall # NoHopCall /\ hopCall.layer # "none" =>
        LET t == hopCall.ttl
            b == CHOOSE c \in InitialTTLs :
                    c >= t /\ \A e \in InitialTTLs : e >= t => c <= e
        IN  /\ hopCall.hops = b - t
            /\ hopCall.hops \in 0 .. 126
            /\ <<hopCall.ctid, hopCall.name, hopCall.hops>> \in dict

\* a packet with TTL 129, the farthest a TTL is from its base
C31_Witness ==
    /\ hopCall.layer = "IPv4"
    /\ hopCall.ttl = 129
    /\ hopCall.hops = 126
    /\ <<hopCall.ctid, "server_hops", 126>> \in dict

\* C32: calculateDifference returns current - previous modulo 2^64 (the one
\* value that added to previous gives current) and leaves current in
\* *previous; when current is below previous the result is
\* 2^64 - (previous - current), neither 0 nor an error.
C32_DifferenceWraps ==
    ncalc > 0 =>
        /\ Add64(lastDiff.previous, lastDiff.diff) = lastDiff.current
        /\ previous = lastDiff.current
        /\ Less64(lastDiff.current, lastDiff.previous) =>
              LET gap == SubLimbs(lastDiff.previous, lastDiff.current, 0)
              IN  /\ Add64(lastDiff.diff, gap) = Zero64
                  /\ CarryOut(lastDiff.diff, gap, 0) = 1
                  /\ lastDiff.diff # Zero64

\* the counter went from 1 back to 0 and the difference is 2^64 - 1
C32_Witness ==
    /\ ncalc > 1
    /\ lastDiff.previous = <<1, 0, 0, 0>>
    /\ lastDiff.current = Zero64
    /\ lastDiff.diff = <<65535, 65535, 65535, 65535>>
    /\ previous = Zero64

\* the call of the single worker has found, by tuple, a session whose
\* conntrack id is not the one of its packet, and the packet is not a new flow
Mismatched ==
    LET d == disp[SeqWorker] IN
    /\ d.pc \notin {"idle", "reverse"}
    /\ d.session # Nil
    /\ NewBitClear(d.inMark)
    /\ sessions[d.session].ConntrackID # d.ctid

\* C33: a packet without the new-flow bit that hits a session whose
\* conntrack id differs from the packet's goes on with the session found by
\* tuple: the call creates and removes no session and leaves the session's
\* conntrack id alone, accounts the packet on that session, and fans it out
\* to the subscribers of that session.
C33_MismatchKeepsSession ==
    /\ [](Mismatched =>
            disp[SeqWorker].pc \in {"account", "accountw", "mirror", "collect", "panic"})
    /\ [][Mismatched =>
            LET d == disp[SeqWorker]
                s == d.session
            IN  /\ Len(sessions') = Len(sessions)
                /\ UNCHANGED <<sessionTable, conntrackIndex>>
                /\ sessions'[s].ConntrackID = sessions[s].ConntrackID
                /\ (d.pc = "accountw" /\ disp'[SeqWorker].pc # "accountw") =>
                      /\ sessions'[s].PacketCount = sessions[s].PacketCount + 1
                      /\ sessions'[s].EventCount = sessions[s].EventCount + 1
                      /\ sessions'[s].ByteCount = sessions[s].ByteCount + d.pkt.length
                /\ (d.pc = "mirror" /\ disp'[SeqWorker].pc = "collect") =>
                      /\ disp'[SeqWorker].session = s
                      /\ DOMAIN disp'[SeqWorker].sublist =
                            DOMAIN sessions[s].subscriptions
                /\ (d.pc # "idle" /\ disp'[SeqWorker].pc = "idle") =>
                      /\ returned'.via = "fanout"
                      /\ returned'.session = s
                      /\ returned'.collected = returned'.sublist]_vars

\* a packet that came with conntrack id 101 was accounted on and fanned out
\* to the subscribers of the one session, whose conntrack id is still 100
C33_Witness ==
    /\ returned.via = "fanout"
    /\ returned.ctid = 101
    /\ returned.inMark = 1
    /\ returned.sublist # {}
    /\ Len(sessions) = 1
    /\ returned.session = 1
    /\ sessions[1].ConntrackID = 100
    /\ sessions[1].PacketCount = 3

\* C34: whenever a message is with the handlers, its ClientToServer is true
\* exactly if its tuple is the ClientSideTuple of the session attached to it.
C34_DirectionMatchesSession ==
    \A w \in Workers :
        disp[w].pc = "collect" =>
            (disp[w].ClientToServer <=>
                MsgTuple(disp[w].pkt) = sessions[disp[w].session].ClientSideTuple)

\* C35: no call is reading the registry in AttachNfqueueSubscriptions while
\* a registration holds nfqueueListMutex to store into it.
C35_AttachReadsUnderMutex ==
    \A w \in Workers : disp[w].pc = "attach" => nfqueueListMutex = ""

\* C36: once every dispatch has returned, each session's PacketCount and
\* EventCount stand at the value createSessionEntry gave them plus the number
\* of dispatches accounted on it, and its ByteCount at the first packet's
\* length plus the lengths of those dispatches: no update is lost.
C36_NoCounterUpdateLost ==
    (\A w \in Workers : disp[w].pc = "idle") =>
        \A s \in 1 .. Len(sessions) :
            /\ sessions[s].PacketCount = 1 + acctLog[s][1]
            /\ sessions[s].EventCount = 1 + acctLog[s][1]
            /\ sessions[s].ByteCount =
                  ClientPacket.length + acctLog[s][2]

\* C37: when a call that created its session for a new-flow packet, with no
\* collision resolved meanwhile, returns from the handlers it invoked, the
\* session it accounted on and handed to them is the one the table holds
\* under that session's forward tuple.
C37_HandledSessionIsInTable ==
    [][\A w \in Workers :
          disp[w].pc = "collect" /\ disp'[w].pc = "idle" =>
              findSessionEntry(
                  TupleString(sessions[disp[w].session].ClientSideTuple)) =
                  disp[w].session]_vars

\* C38: every call of Shutdown that has reached its send on
\* shutdownCleanerTask returns, by the acknowledgement or by its timeout,
\* also when the cleaner has returned already and when another call of
\* Shutdown is running.
C38_EveryShutdownReturns ==
    \A c \in Callers :
        (shutdownCalls[c] = "send") ~>
            (shutdownCalls[c] \in {"acked", "failed"})

\* C39: when conntrack_thread has returned, no netlink handle is open and
\* nfcth is NULL, and go_child_goodbye has been called only after
\* go_child_startup.
C39_ThreadLeavesNoHandle ==
    threadPc = "returned" =>
        /\ ~handleOpen
        /\ nfcth = "NULL"
        /\ childCalls \in {<<>>, <<"go_child_startup", "go_child_goodbye">>}

\* C40: whenever a message is with the handlers, they were called with
\* newSession = true exactly if the packet is the one that created the
\* session attached to the message, that is the only packet accounted on it
\* so far.
C40_NewSessionOnlyForCreator ==
    \A w \in Workers :
        disp[w].pc = "collect" =>
            (disp[w].newSession <=> acctLog[disp[w].session][1] = 1)

====
